---- MODULE Spec2Model ----
(***************************************************************************)
(* Model of sp_experiment/define_payoff_settings.py: the enumeration of    *)
(* payoff settings (get_payoff_settings), their conversion to reward lists *)
(* (get_payoff_dict), the balanced draw of one setting per trial           *)
(* (get_random_payoff_settings) and the draw of one setting at a trial's   *)
(* start (get_random_payoff_dict); of define_settings.py: the experimental *)
(* design (provide_experimental_design); and of utils.py: the event log    *)
(* (log_data, _get_payoff_setting) and the serial port (My_serial).        *)
(*                                                                         *)
(* Numbers.  Magnitudes are the integers 1..9.  Probabilities and expected *)
(* values are kept in fixed point with Scale units per 1.0, so 0.3 is 30.  *)
(* The source works in doubles and rounds to 14 decimals before every      *)
(* comparison and before storing a row; on the values that occur (sums of  *)
(* products of an integer 1..9 and a tenth) that rounding yields the       *)
(* double nearest to the exact decimal, so the comparisons of the source   *)
(* agree with exact fixed-point comparisons.                               *)
(*                                                                         *)
(* A payoff setting is a sequence of 8 numbers.  The source indexes its    *)
(* columns from 0; Col(row, c) reads source column c.                      *)
(***************************************************************************)
EXTENDS Integers, Sequences, FiniteSets, TLC

VARIABLES
    fn,                 \* which function of the module the current call runs
    pc,                 \* position inside the current call
    ev_diff,            \* get_payoff_settings: argument
    payoff_settings,    \* the pool: result of get_payoff_settings / argument
    error,              \* exception raised by the current call, or NoError
    payoff_setting,     \* get_payoff_dict: argument
    payoff_dict,        \* get_payoff_dict: result, <<list for 0, list for 1>>
    max_ntrls,          \* get_random_payoff_settings: argument
    cutoff_p,           \* get_random_payoff_settings: argument
    seed,               \* get_random_payoff_settings: argument, NoSeed for None
    nth_stimclass,      \* index of the stimulus class the loop is at
    idxs_into_payoffs,  \* per trial slot an index into the pool, or NaN
    payoff_settings_reducing,   \* the shrinking copy of the pool
    rng,                \* state of the generator bound to the name rng
    rand_payoff_settings,       \* result of get_random_payoff_settings
    call_no,            \* 1 in the first call, 2 in its repetition
    first_return,       \* what the first call returned or raised
    os_entropy,         \* what RandomState(None) seeds itself from
    numpy_empty_choice, \* numpy build: choice of 0 from an empty array
                        \* "raises" or is "allowed"; "unobserved" before
    pseudorand,         \* get_random_payoff_dict: argument
    df,                 \* the stimulus classes shown so far (outcome, signed
                        \* by the side it was sampled on)
    presented,          \* the settings the returned payoff dicts were built of
    pool_in,            \* the pool the current call was given
    first_pool,         \* the pool the first call was given
    n_participants,     \* provide_experimental_design: argument
    yoke_map,           \* provide_experimental_design: results
    opt_stop_map,
    seed_map,
    events,             \* the log file: one record per line
    trial,              \* log_data, _get_payoff_setting: argument
    log_action,         \* log_data: argument action
    setting,            \* _get_payoff_setting: result
    set_order,          \* Python build: a set of small ints is iterated in
                        \* "hash" order (CPython) or "insertion" order
    ser,                \* everything written to the serial port, in order
    byte,               \* My_serial.write: argument
    twaited,            \* mysleep: the time waited so far, in milliseconds
    stim_class_arr_sorted,      \* provide_balancing_selection: the classes
                        \* in ascending order of their count
    stim_to_show_idx,   \* provide_balancing_selection: position in that order
    selection,          \* provide_balancing_selection: result
    argsort_ties,       \* numpy build: the order argsort leaves equal counts
                        \* in, "ascending" or "descending" by position
    clean_df,           \* remove_error_rows: result
    run_max_ntrls,      \* run_flow: argument max_ntrls
    max_nsamples,       \* run_flow: argument
    block_size,         \* run_flow: argument
    found_eyetrackers,  \* tr.find_all_eyetrackers(): how many there are
    optimized,          \* whether the interpreter runs with -O (no asserts)
    track_eyes,         \* run_flow: local
    gaze__error_count,  \* run_flow: local
    current_ntrls,      \* run_flow: local
    current_nblocks,    \* run_flow: local
    current_nsamples,   \* run_flow: local
    n_settings,         \* run_flow: rows left in the local payoff_settings
    data_file,          \* the lines log_data has appended to the events file
    win,                \* the window: "none", "open" or "closed"
    gaze,               \* gaze_dict['gaze']: <<left, right>>, two points in
                        \* hundredths of the display area
    reader,             \* get_normed_gazepoint: position
    left,               \* get_normed_gazepoint: local
    right,              \* get_normed_gazepoint: local
    gazepoint           \* get_normed_gazepoint: result

settings_vars == <<ev_diff, payoff_setting, payoff_dict>>

\* the locals of get_random_payoff_settings: all but its argument seed
SamplerLocalsVars == <<max_ntrls, cutoff_p, nth_stimclass, idxs_into_payoffs,
                       payoff_settings_reducing, rng, rand_payoff_settings,
                       call_no, first_return, os_entropy, numpy_empty_choice>>

sampler_vars == <<seed, SamplerLocalsVars>>

trial_vars == <<pseudorand, df, presented, pool_in, first_pool>>

design_vars == <<n_participants, yoke_map, opt_stop_map, seed_map>>

log_vars == <<events, trial, log_action, setting, set_order>>

serial_vars == <<ser, byte, twaited>>

\* the variables outside get_payoff_settings, get_payoff_dict and
\* get_random_payoff_settings
balancing_vars == <<stim_class_arr_sorted, stim_to_show_idx, selection,
                    argsort_ties>>

\* the variables of the units modelled on their own
error_rows_vars == <<clean_df>>

flow_vars == <<run_max_ntrls, max_nsamples, block_size, found_eyetrackers,
               optimized, track_eyes, gaze__error_count, current_ntrls,
               current_nblocks, current_nsamples, n_settings, data_file, win>>

gaze_vars == <<gaze, reader, left, right, gazepoint>>

unit_vars == <<balancing_vars, error_rows_vars, flow_vars, gaze_vars>>

elsewhere_vars == <<trial_vars, design_vars, log_vars, serial_vars,
                    unit_vars>>

vars == <<fn, pc, payoff_settings, error, settings_vars, sampler_vars,
          elsewhere_vars>>

----------------------------------------------------------------------------
(* Fixed point and array helpers *)

\* 0.1 in fixed point: the step of the probabilities
Tenth == 10

Scale == 10 * Tenth

NaN == 0 - 1

NoError == "none"

\* seed=None
NoSeed == 0 - 1

\* the name rng before its first assignment
NoRng == 0 - 1

Abs(x) == IF x < 0 THEN 0 - x ELSE x

Col(row, c) == row[c + 1]

MagCols == {0, 1, 4, 5}

ProbCols == {2, 3, 6, 7}

Range(s) == {s[i] : i \in 1..Len(s)}

----------------------------------------------------------------------------
(* get_payoff_settings *)

\* np.arange(0, 1, 0.1): the range started at 0
initial_probs_FromZero == [i \in 1..10 |-> (i - 1) * Tenth]

\* np.arange(0.1, 1, 0.1)
initial_probs == [i \in 1..9 |-> i * Tenth]

\* np.arange(1, 10)
initial_mags == [i \in 1..9 |-> i]

NMags == Len(initial_mags)

\* all ordered pairs of magnitudes in lexicographic order;
\* itertools.combinations keeps those with the first before the second
AllPairs == [k \in 1..(NMags * NMags) |->
                <<initial_mags[((k - 1) \div NMags) + 1],
                  initial_mags[((k - 1) % NMags) + 1]>>]

IsCombination(p) == p[1] < p[2]

single_mags == SelectSeq(AllPairs, IsCombination)

single_probs == [i \in 1..Len(initial_probs) |->
                    <<initial_probs[i], Scale - initial_probs[i]>>]

mags == [r \in 1..(Len(single_mags) * Len(single_probs)) |->
            single_mags[((r - 1) \div Len(single_probs)) + 1]]

probs == [r \in 1..(Len(single_mags) * Len(single_probs)) |->
            single_probs[((r - 1) % Len(single_probs)) + 1]]

single_distr == [r \in 1..Len(mags) |-> mags[r] \o probs[r]]

NSingle == Len(single_distr)

\* a roll by twice the shift: the odd rotations are never paired
Rolled_TwiceTheShift(i, j) ==
    single_distr[((j - 2 * i + 2 * NSingle) % NSingle) + 1]

\* np.roll(single_distr, shift=i, axis=0)[j], 0-based i and j
Rolled(i, j) == single_distr[((j - i + NSingle) % NSingle) + 1]

\* row k (0-based) of two_distrs
two_distrs(k) == Rolled(k \div NSingle, k % NSingle)
                     \o single_distr[(k % NSingle) + 1]

\* the right side's probabilities paired with the wrong magnitudes
EvDiffOf_SwappedProbs(row) ==
    LET ev1 == Col(row, 0) * Col(row, 2) + Col(row, 1) * Col(row, 3)
        ev2 == Col(row, 4) * Col(row, 7) + Col(row, 5) * Col(row, 6)
    IN Abs(ev1 - ev2)

\* np.abs(ev1 - ev2) of one row
EvDiffOf(row) ==
    LET ev1 == Col(row, 0) * Col(row, 2) + Col(row, 1) * Col(row, 3)
        ev2 == Col(row, 4) * Col(row, 6) + Col(row, 5) * Col(row, 7)
    IN Abs(ev1 - ev2)

ev_payoff_settings(evd) ==
    LET RowIdx == [k \in 1..(NSingle * NSingle) |-> k - 1]
        Keep(k) == EvDiffOf(two_distrs(k)) = evd
        kept == SelectSeq(RowIdx, Keep)
    IN [n \in 1..Len(kept) |-> two_distrs(kept[n])]

\* the last magnitude column left out of the comparison
FourDistinct_ThreeColumns(row) ==
    Cardinality({Col(row, 0), Col(row, 1), Col(row, 4)}) = 3

\* len(np.unique(row[[0, 1, 4, 5]])) == 4
FourDistinct(row) ==
    Cardinality({Col(row, 0), Col(row, 1), Col(row, 4), Col(row, 5)}) = 4

\* the elif branch (left below right) left out
Dominated_LeftAboveOnly(row) ==
    IF Col(row, 0) > Col(row, 4) /\ Col(row, 0) > Col(row, 5)
    THEN Col(row, 1) > Col(row, 4) /\ Col(row, 1) > Col(row, 5)
    ELSE FALSE

\* deletion_mask[idx] == 1
Dominated(row) ==
    IF Col(row, 0) > Col(row, 4) /\ Col(row, 0) > Col(row, 5)
    THEN Col(row, 1) > Col(row, 4) /\ Col(row, 1) > Col(row, 5)
    ELSE IF Col(row, 0) < Col(row, 4) /\ Col(row, 0) < Col(row, 5)
         THEN Col(row, 1) < Col(row, 4) /\ Col(row, 1) < Col(row, 5)
         ELSE FALSE

NotDominated(row) == ~Dominated(row)

\* The whole function.  The distinctness loop leaves payoff_settings at None
\* when it appends no row, and payoff_settings.shape then raises.
get_payoff_settings(evd) ==
    LET distinct == SelectSeq(ev_payoff_settings(evd), FourDistinct)
    IN IF Len(distinct) = 0
       THEN [error |-> "AttributeError", value |-> <<>>]
       ELSE [error |-> NoError, value |-> SelectSeq(distinct, NotDominated)]

----------------------------------------------------------------------------
(* get_payoff_dict *)

\* _nanint: int() truncates; a NaN magnitude stays NaN, a NaN probability
\* counts once.  x is a fixed-point number.
nanint(x, prob) ==
    IF x = NaN THEN (IF prob THEN 1 ELSE NaN) ELSE x \div Scale

\* payoff_setting[c] as a fixed-point number
Fixed(row, c) ==
    IF Col(row, c) = NaN THEN NaN
    ELSE IF c \in MagCols THEN Col(row, c) * Scale ELSE Col(row, c)

\* payoff_setting[c] * 10
Times10(row, c) == IF Col(row, c) = NaN THEN NaN ELSE Fixed(row, c) * 10

\* [v] * n
Repeat(v, n) == [i \in 1..n |-> v]

IsNotNaN(v) == v # NaN

\* each magnitude repeated by the other magnitude's probability
Distr_SwappedProbs(row, m1, p1, m2, p2) ==
    Repeat(nanint(Fixed(row, m1), FALSE), nanint(Times10(row, p2), TRUE))
      \o Repeat(nanint(Fixed(row, m2), FALSE), nanint(Times10(row, p1), TRUE))

\* [_nanint(setting[m1])] * _nanint(setting[p1]*10, True) + the same for m2, p2
Distr(row, m1, p1, m2, p2) ==
    Repeat(nanint(Fixed(row, m1), FALSE), nanint(Times10(row, p1), TRUE))
      \o Repeat(nanint(Fixed(row, m2), FALSE), nanint(Times10(row, p2), TRUE))

\* the result as <<payoff_dict[0], payoff_dict[1]>>
get_payoff_dict(row) ==
    LET left_distr == Distr(row, 0, 2, 1, 3)
        right_distr == Distr(row, 4, 6, 5, 7)
    IN <<SelectSeq(left_distr, IsNotNaN), SelectSeq(right_distr, IsNotNaN)>>

----------------------------------------------------------------------------
(* np.random.RandomState, as far as get_random_payoff_settings uses it.     *)
(* The generator is a deterministic stream that is a function of its seed;  *)
(* the stream itself (a linear congruential one) stands for numpy's.       *)

RngMod == 65536

\* the generator's state after one more number was taken from it
RngStep(s) == (s * 25173 + 13849) % RngMod

\* np.random.RandomState(sd) for an integer sd
Seeded(sd) == RngStep(sd % RngMod)

\* rk_interval(max): the number in 0..max the generator in state s yields
Interval(s, max) == (RngStep(s) \div 64) % (max + 1)

\* np.arange(n), as a tuple
arange(n) == SubSeq([k \in 1..n |-> k - 1], 1, n)

\* one step of shuffle: j = rk_interval(i); x[i], x[j] = x[j], x[i]
Swap(st, i) ==
    LET j == Interval(st.rng, i)
    IN [perm |-> [st.perm EXCEPT ![i + 1] = st.perm[j + 1],
                                 ![j + 1] = st.perm[i + 1]],
        rng |-> RngStep(st.rng)]

\* shuffle, from the last position down: for i in reversed(range(1, n)),
\* here the steps i = hi down to i = lo (the upper half of them first)
RECURSIVE Shuffle(_, _, _)
Shuffle(st, hi, lo) ==
    IF hi < lo THEN st
    ELSE IF hi = lo THEN Swap(st, hi)
    ELSE LET mid == (hi + lo) \div 2
             upper == Shuffle(st, hi, mid + 1)
         IN \* the test has the upper half computed before the lower half
            IF upper.rng = NoRng THEN upper ELSE Shuffle(upper, mid, lo)

\* rng.permutation(n): a permutation of 0..n-1 and the generator's new state
permutation(s, n) == Shuffle([perm |-> arange(n), rng |-> s], n - 1, 1)

\* a choice that returns one index of the population size times
choice_Repeating(s, n, size, build) ==
    IF n = 0 /\ (build = "raises" \/ size # 0)
    THEN [error |-> "ValueError", idx |-> <<>>, rng |-> s]
    ELSE LET p == permutation(s, n)
         IN [error |-> NoError, idx |-> [ii \in 1..size |-> p.perm[1]],
             rng |-> p.rng]

\* rng.choice(np.arange(n), size, replace=False); older numpy builds refuse an
\* empty array even when no sample is taken
choice(s, n, size, build) ==
    IF n = 0 /\ (build = "raises" \/ size # 0)
    THEN [error |-> "ValueError", idx |-> <<>>, rng |-> s]
    ELSE IF size > n
         THEN [error |-> "ValueError", idx |-> <<>>, rng |-> s]
         ELSE LET p == permutation(s, n)
              IN [error |-> NoError, idx |-> SubSeq(p.perm, 1, size),
                  rng |-> p.rng]

----------------------------------------------------------------------------
(* get_random_payoff_settings *)

\* np.arange(1, 10)
outcomes == [i \in 1..9 |-> i]

\* np.concatenate([outcomes*-1, outcomes]): left classes negative
stim_classes == [k \in 1..(2 * Len(outcomes)) |->
                    IF k <= Len(outcomes) THEN 0 - outcomes[k]
                    ELSE outcomes[k - Len(outcomes)]]

n_classes == Len(stim_classes)

n_stims_per_class(ntrls) == ntrls \div n_classes

n_random_stims(ntrls) == ntrls - n_stims_per_class(ntrls) * n_classes

\* row[c] == number
ColEq(row, c, number) == Fixed(row, c) = number * Scale

\* (row == number).any()
HasNumber(row, number) == \E c \in 0..7 : ColEq(row, c, number)

\* np.where(row == number)[1]: the column the number is in (a valid setting
\* holds a number at most once)
NumIdx(row, number) ==
    CHOOSE c \in 0..7 :
        ColEq(row, c, number) /\ \A d \in 0..(c - 1) : ~ColEq(row, d, number)

mapit_to_prob_idx(c) == CASE c = 0 -> 2 [] c = 1 -> 3 [] c = 4 -> 6 [] c = 5 -> 7

\* a side test that accepts the number on either side
OnSide_AnySide(row, stim) == NumIdx(row, Abs(stim)) \in MagCols

\* column index <= 1 for a left class, > 1 for a right class
OnSide(row, stim) ==
    IF stim < 0 THEN NumIdx(row, Abs(stim)) <= 1 ELSE NumIdx(row, Abs(stim)) > 1

\* a cutoff test that lets every probability pass
AboveCutoff_Ignored(row, stim, cutoff) == TRUE

\* the probability paired with the number exceeds the cutoff
AboveCutoff(row, stim, cutoff) ==
    Col(row, mapit_to_prob_idx(NumIdx(row, Abs(stim)))) > cutoff

\* the candidates of a class in the shrinking pool
num_side_prob_select(pool, stim, cutoff) ==
    LET InNum(row) == HasNumber(row, Abs(stim))
        Side(row) == OnSide(row, stim)
        Prob(row) == AboveCutoff(row, stim, cutoff)
    IN SelectSeq(SelectSeq(SelectSeq(pool, InNum), Side), Prob)

\* a size test that only asks for as many options as are drawn
TooFewOptions_BelowQuota(n_stimclass_options, per) == n_stimclass_options < per

\* n_stimclass_options < n_stims_per_class * 4
TooFewOptions(n_stimclass_options, per) == n_stimclass_options < per * 4

\* np.where((arr == row).all(axis=1))[0][0], 0-based
FirstIndex(arr, row) ==
    (CHOOSE i \in 1..Len(arr) :
        arr[i] = row /\ \A j \in 1..(i - 1) : arr[j] # row) - 1

\* an index into the full pool taken for one into the shrinking pool
reduce_idx_IntoTheFullPool(full, reducing, row) == FirstIndex(full, row)

\* np.where((payoff_settings_reducing == selected_row).all(axis=1))[0][0]
reduce_idx(full, reducing, row) == FirstIndex(reducing, row)

\* a deletion that removes as many rows, but from the front
Delete_FromFront(arr, idxs) ==
    SubSeq(arr, Cardinality(idxs \cap 0..(Len(arr) - 1)) + 1, Len(arr))

\* np.delete(arr, idxs, axis=0), idxs a set of 0-based indices
Delete(arr, idxs) ==
    LET Idx == [i \in 1..Len(arr) |-> i]
        Keep(i) == (i - 1) \notin idxs
        kept == SelectSeq(Idx, Keep)
    IN [n \in 1..Len(kept) |-> arr[kept[n]]]

\* a[start:start+len(vals)] = vals
AssignSlice(a, start, vals) ==
    [k \in 1..Len(a) |->
        IF k > start /\ k <= start + Len(vals) THEN vals[k - start] ELSE a[k]]

\* the start of the slice a[-k:] of an array of length len
NegSliceStart(len, k) == IF k = 0 THEN 0 ELSE IF k > len THEN 0 ELSE len - k

\* len(np.unique(a)) with every NaN counted on its own
LenUnique(a) ==
    Cardinality({a[i] : i \in {j \in 1..Len(a) : a[j] # NaN}})
        + Cardinality({j \in 1..Len(a) : a[j] = NaN})

\* the numpy builds a call of choice(np.arange(n), size) may show to be in use
Builds(known, n, size) ==
    IF known = "unobserved" /\ n = 0 /\ size = 0
    THEN {"raises", "allowed"}
    ELSE {known}

\* a RandomState that seeds itself from the operating system whatever the seed
RandomState_FromEntropy(sd, entropy) == Seeded(entropy)

\* np.random.RandomState(seed): seeded from the operating system for None
RandomState(sd, entropy) == IF sd = NoSeed THEN Seeded(entropy) ELSE Seeded(sd)

\* the operating system's entropy moves on, whether it was read or not
EntropyAfter(entropy) == RngStep(entropy + 1)

----------------------------------------------------------------------------
(* Bounds of the checked inputs *)

\* ev_diff is drawn from the multiples of EvDiffStep (0.45: every second one
\* is a multiple of 0.1) up to MaxEvDiffSteps steps, and the two values the
\* repository uses.
EvDiffStep == 45

MaxEvDiffSteps == 18

expected_value_diff == 90

test_ev_diff == 10

EvDiffs == {k * EvDiffStep : k \in 0..MaxEvDiffSteps}
               \cup {expected_value_diff, test_ev_diff}

\* Settings handed to get_payoff_dict besides the rows of the pool: one with
\* probabilities that are no tenths and one with an outcome never experienced.
ExtraSettings == { <<3, 7, 33, 67, 1, 8, 50, 50>>,
                   <<NaN, 7, NaN, 100, 1, 8, 50, 50>> }

\* max_ntrls is drawn from n_classes * q + r, q up to MaxPerClass and r up to
\* MaxRemainder.
MaxPerClass == 2

MaxRemainder == 2

TrialCounts == {q * n_classes + r : q \in 0..MaxPerClass, r \in 0..MaxRemainder}

CUTOFF_P == 60

max_ntrls_setting == 100

\* a negative cutoff_p (-1) and the one of define_settings
Cutoffs == {0 - Scale, CUTOFF_P}

MaxSeed == 1

Seeds == 0..MaxSeed \cup {NoSeed}

MaxEntropy == 0

\* The pools handed to get_random_payoff_settings: two enumerated ones
\* (ev_diff 5.5 with 60 rows, 7.0 with 10 rows), every fourth row of the pool
\* of the experiment (240 rows), and a pool in which one row occurs twice.
SamplerEvDiffs == {550, 700}

EnumeratedPools == {get_payoff_settings(e).value : e \in SamplerEvDiffs}

ExperimentPool == get_payoff_settings(expected_value_diff).value

EveryFourthRow ==
    [n \in 1..(Len(ExperimentPool) \div 4) |-> ExperimentPool[4 * n]]

PoolWithDuplicate == <<ExperimentPool[1], ExperimentPool[1]>>

SamplerPools == EnumeratedPools \cup {EveryFourthRow, PoolWithDuplicate}

\* the call of test_balancing and the scenario of the specification: the
\* pool of the experiment, seed 1, 100 or 18 trials
ScenarioTrialCounts == {n_classes, max_ntrls_setting}

\* the locals of get_random_payoff_settings while it is not called
SamplerLocalsIdle ==
    /\ max_ntrls = 0
    /\ cutoff_p = 0
    /\ nth_stimclass = 0
    /\ idxs_into_payoffs = <<>>
    /\ payoff_settings_reducing = <<>>
    /\ rng = NoRng
    /\ rand_payoff_settings = <<>>
    /\ call_no = 0
    /\ first_return = <<>>
    /\ os_entropy = 0
    /\ numpy_empty_choice = "unobserved"

\* the variables of get_random_payoff_settings while it is not called
SamplerIdle == SamplerLocalsIdle /\ seed = NoSeed

\* the variables of get_random_payoff_dict while it is not called
TrialIdle ==
    /\ pseudorand = FALSE
    /\ df = <<>>
    /\ presented = <<>>
    /\ pool_in = <<>>
    /\ first_pool = <<>>

\* the variables of provide_experimental_design while it is not called
DesignIdle ==
    /\ n_participants = 0
    /\ yoke_map = <<>>
    /\ opt_stop_map = <<>>
    /\ seed_map = <<>>

\* no log file is written or read
LogIdle ==
    /\ events = <<>>
    /\ trial = 0
    /\ log_action = 0
    /\ setting = <<>>
    /\ set_order = "unobserved"

\* no serial port is written to
SerialIdle ==
    /\ ser = <<>>
    /\ byte = 0
    /\ twaited = 0

\* provide_balancing_selection is not called
BalancingIdle ==
    /\ stim_class_arr_sorted = <<>>
    /\ stim_to_show_idx = 0
    /\ selection = <<>>
    /\ argsort_ties = "unobserved"

\* remove_error_rows is not called
ErrorRowsIdle == clean_df = <<>>

\* run_flow is not called
FlowIdle ==
    /\ run_max_ntrls = 0
    /\ max_nsamples = 0
    /\ block_size = 0
    /\ found_eyetrackers = 0
    /\ optimized = FALSE
    /\ track_eyes = FALSE
    /\ gaze__error_count = 0
    /\ current_ntrls = 0
    /\ current_nblocks = 0
    /\ current_nsamples = 0
    /\ n_settings = 0
    /\ data_file = <<>>
    /\ win = "none"

\* define_eyetracker.py line 24: the centre of the screen for both eyes
GazeDefault == <<<<Scale \div 2, Scale \div 2>>, <<Scale \div 2, Scale \div 2>>>>

\* no tracker delivers samples and get_normed_gazepoint is not called
GazeIdle ==
    /\ gaze = GazeDefault
    /\ reader = "idle"
    /\ left = <<>>
    /\ right = <<>>
    /\ gazepoint = <<>>

UnitsIdle == BalancingIdle /\ ErrorRowsIdle /\ FlowIdle /\ GazeIdle

ElsewhereIdle ==
    TrialIdle /\ DesignIdle /\ LogIdle /\ SerialIdle /\ UnitsIdle

----------------------------------------------------------------------------
(* Enumeration and conversion *)

InitSettings ==
    /\ fn = "get_payoff_settings"
    /\ pc = "call"
    /\ ev_diff \in EvDiffs
    /\ payoff_settings = <<>>
    /\ error = NoError
    /\ payoff_setting = <<>>
    /\ payoff_dict = <<>>
    /\ SamplerIdle
    /\ ElsewhereIdle

GetPayoffSettings ==
    /\ fn = "get_payoff_settings"
    /\ pc = "call"
    /\ LET res == get_payoff_settings(ev_diff)
       IN /\ payoff_settings' = res.value
          /\ error' = res.error
          /\ pc' = IF res.error = NoError THEN "returned" ELSE "raised"
    /\ UNCHANGED elsewhere_vars
    /\ UNCHANGED <<fn, ev_diff, payoff_setting, payoff_dict, sampler_vars>>

\* get_payoff_dict on one row of the pool or on one of the extra settings
GetPayoffDict ==
    /\ fn = "get_payoff_settings"
    /\ pc = "returned"
    /\ \E row \in Range(payoff_settings) \cup ExtraSettings :
          /\ payoff_setting' = row
          /\ payoff_dict' = get_payoff_dict(row)
    /\ fn' = "get_payoff_dict"
    /\ UNCHANGED elsewhere_vars
    /\ UNCHANGED <<pc, ev_diff, payoff_settings, error, sampler_vars>>

NextSettings == GetPayoffSettings \/ GetPayoffDict

SpecSettings == InitSettings /\ [][NextSettings]_vars

----------------------------------------------------------------------------
(* The balanced draw, one action per step of get_random_payoff_settings *)

InitSampler ==
    /\ \/ /\ payoff_settings \in SamplerPools
          /\ max_ntrls \in TrialCounts
          /\ seed \in Seeds
       \/ /\ payoff_settings = ExperimentPool
          /\ max_ntrls \in ScenarioTrialCounts
          /\ seed = 1
    /\ fn = "get_random_payoff_settings"
    /\ pc = "call"
    /\ error = NoError
    /\ ev_diff = 0
    /\ payoff_setting = <<>>
    /\ payoff_dict = <<>>
    /\ cutoff_p \in Cutoffs
    /\ os_entropy \in IF seed = NoSeed THEN 0..MaxEntropy ELSE {0}
    /\ numpy_empty_choice = "unobserved"
    /\ nth_stimclass = 0
    /\ idxs_into_payoffs = <<>>
    /\ payoff_settings_reducing = <<>>
    /\ rng = NoRng
    /\ rand_payoff_settings = <<>>
    /\ call_no = 1
    /\ first_return = <<>>
    /\ ElsewhereIdle

Raise(exc) ==
    /\ pc' = "raised"
    /\ error' = exc

\* lines 380-398: the slots start at NaN, the shrinking pool as a copy
EnterSampler ==
    /\ fn = "get_random_payoff_settings"
    /\ pc = "call"
    /\ idxs_into_payoffs' = [k \in 1..max_ntrls |-> NaN]
    /\ payoff_settings_reducing' = payoff_settings
    /\ nth_stimclass' = 0
    /\ pc' = "loop"
    /\ UNCHANGED elsewhere_vars
    /\ UNCHANGED <<fn, payoff_settings, error, settings_vars, max_ntrls,
                   cutoff_p, seed, rng, rand_payoff_settings, call_no,
                   first_return, os_entropy, numpy_empty_choice>>

\* lines 399-466: one iteration of the loop over the stimulus classes
ClassStep ==
    /\ fn = "get_random_payoff_settings"
    /\ pc = "loop"
    /\ LET stim == stim_classes[nth_stimclass + 1]
           per == n_stims_per_class(max_ntrls)
           cand == num_side_prob_select(payoff_settings_reducing, stim, cutoff_p)
           n_stimclass_options == Len(cand)
       IN IF TooFewOptions(n_stimclass_options, per)
          THEN /\ Raise("RuntimeError")
               /\ UNCHANGED <<rng, os_entropy, payoff_settings_reducing,
                              idxs_into_payoffs, nth_stimclass,
                              numpy_empty_choice>>
          ELSE \E build \in Builds(numpy_empty_choice, n_stimclass_options, per) :
           LET ch == choice(RandomState(seed, os_entropy),
                            n_stimclass_options, per, build)
               selected_rows == [ii \in 1..per |-> cand[ch.idx[ii] + 1]]
               payoff_idxs == [ii \in 1..per |->
                                  FirstIndex(payoff_settings, selected_rows[ii])]
               reduce_idxs == [ii \in 1..per |->
                                  reduce_idx(payoff_settings,
                                             payoff_settings_reducing,
                                             selected_rows[ii])]
           IN  /\ numpy_empty_choice' = build
               /\ os_entropy' = EntropyAfter(os_entropy)
               /\ IF ch.error # NoError
                  THEN /\ Raise(ch.error)
                       /\ rng' = ch.rng
                       /\ UNCHANGED <<payoff_settings_reducing,
                                      idxs_into_payoffs, nth_stimclass>>
                  ELSE /\ rng' = ch.rng
                       /\ payoff_settings_reducing' =
                              Delete(payoff_settings_reducing, Range(reduce_idxs))
                       /\ idxs_into_payoffs' =
                              AssignSlice(idxs_into_payoffs,
                                          nth_stimclass * per, payoff_idxs)
                       /\ nth_stimclass' = nth_stimclass + 1
                       /\ pc' = IF nth_stimclass + 1 = n_classes
                                THEN "asserts" ELSE "loop"
                       /\ UNCHANGED error
    /\ UNCHANGED elsewhere_vars
    /\ UNCHANGED <<fn, payoff_settings, settings_vars, max_ntrls, cutoff_p,
                   seed, rand_payoff_settings, call_no, first_return>>

\* lines 469-471: the two assertions after the loop
DefendAgainstErrors ==
    /\ fn = "get_random_payoff_settings"
    /\ pc = "asserts"
    /\ IF /\ Cardinality({k \in 1..Len(idxs_into_payoffs) :
                              idxs_into_payoffs[k] = NaN})
                = n_random_stims(max_ntrls)
          /\ LenUnique(idxs_into_payoffs) = Len(idxs_into_payoffs)
       THEN pc' = "leftover" /\ UNCHANGED error
       ELSE Raise("AssertionError")
    /\ UNCHANGED elsewhere_vars
    /\ UNCHANGED <<fn, payoff_settings, settings_vars, sampler_vars>>

\* lines 473-486: the draw of the leftover trials and its assignment
PickLeftover ==
    /\ fn = "get_random_payoff_settings"
    /\ pc = "leftover"
    /\ \E build \in Builds(numpy_empty_choice, Len(payoff_settings_reducing),
                            n_random_stims(max_ntrls)) :
       LET nrand == n_random_stims(max_ntrls)
           ch == choice(rng, Len(payoff_settings_reducing), nrand, build)
           selected_rows == [ii \in 1..nrand |->
                                payoff_settings_reducing[ch.idx[ii] + 1]]
           payoff_idxs == [ii \in 1..nrand |->
                              FirstIndex(payoff_settings, selected_rows[ii])]
           start == NegSliceStart(Len(idxs_into_payoffs), nrand)
           target == Len(idxs_into_payoffs) - start
       IN /\ numpy_empty_choice' = build
          /\ IF ch.error # NoError
             THEN /\ Raise(ch.error)
                  /\ UNCHANGED <<rng, idxs_into_payoffs>>
             ELSE
               /\ rng' = ch.rng
               /\ IF target = nrand
                  THEN /\ idxs_into_payoffs' =
                              AssignSlice(idxs_into_payoffs, start, payoff_idxs)
                       /\ pc' = "shuffle"
                       /\ UNCHANGED error
                  ELSE IF nrand = 1
                       THEN /\ idxs_into_payoffs' =
                                  AssignSlice(idxs_into_payoffs, start,
                                              [k \in 1..target |-> payoff_idxs[1]])
                            /\ pc' = "shuffle"
                            /\ UNCHANGED error
                       ELSE \* an array of another length cannot be broadcast
                            /\ Raise("ValueError")
                            /\ UNCHANGED idxs_into_payoffs
    /\ UNCHANGED elsewhere_vars
    /\ UNCHANGED <<fn, payoff_settings, settings_vars, max_ntrls, cutoff_p,
                   seed, nth_stimclass, payoff_settings_reducing,
                   rand_payoff_settings, call_no, first_return, os_entropy>>

\* lines 488-495: the rows of the slots, permuted, are returned
ShuffleAndReturn ==
    /\ fn = "get_random_payoff_settings"
    /\ pc = "shuffle"
    /\ LET rows == [k \in 1..max_ntrls |->
                       payoff_settings[idxs_into_payoffs[k] + 1]]
           p == permutation(rng, max_ntrls)
       IN /\ rand_payoff_settings' = [k \in 1..max_ntrls |-> rows[p.perm[k] + 1]]
          /\ rng' = p.rng
    /\ pc' = "returned"
    /\ UNCHANGED elsewhere_vars
    /\ UNCHANGED <<fn, payoff_settings, error, settings_vars, max_ntrls,
                   cutoff_p, seed, nth_stimclass, idxs_into_payoffs,
                   payoff_settings_reducing, call_no, first_return,
                   os_entropy, numpy_empty_choice>>

\* the caller repeats the call with the same arguments
CallAgain ==
    /\ fn = "get_random_payoff_settings"
    /\ pc \in {"returned", "raised"}
    /\ call_no = 1
    /\ first_return' = <<[error |-> error, value |-> rand_payoff_settings]>>
    /\ call_no' = 2
    /\ pc' = "call"
    /\ error' = NoError
    /\ nth_stimclass' = 0
    /\ idxs_into_payoffs' = <<>>
    /\ payoff_settings_reducing' = <<>>
    /\ rng' = NoRng
    /\ rand_payoff_settings' = <<>>
    /\ UNCHANGED elsewhere_vars
    /\ UNCHANGED <<fn, payoff_settings, settings_vars, max_ntrls, cutoff_p,
                   seed, os_entropy, numpy_empty_choice>>

NextSampler ==
    \/ EnterSampler
    \/ ClassStep
    \/ DefendAgainstErrors
    \/ PickLeftover
    \/ ShuffleAndReturn
    \/ CallAgain

SpecSampler == InitSampler /\ [][NextSampler]_vars

----------------------------------------------------------------------------
(* get_random_payoff_dict: the draw of one setting at the start of a trial, *)
(* and provide_balancing_selection                                         *)

\* the labels of the histogram bins: stim_class_hist[1][:-1]
balancing_classes == {0 - m : m \in 1..9} \cup 1..9

\* stim_class_hist[0]: how often df holds the class
Hist(d, stim) == Cardinality({i \in 1..Len(d) : d[i] = stim})

\* the settings that hold the number on the side of the class
num_side_select(pool, stim) ==
    LET InNum(row) == HasNumber(row, Abs(stim))
        Side(row) == OnSide(row, stim)
    IN SelectSeq(SelectSeq(pool, InNum), Side)

\* The classes provide_balancing_selection may settle on: the first class,
\* in ascending order of the histogram, that has candidates.  argsort leaves
\* the order of classes seen equally often to the numpy build.
stims_to_show(d, pool) ==
    {stim \in balancing_classes :
        /\ Len(num_side_select(pool, stim)) > 0
        /\ \A other \in balancing_classes :
               Hist(d, other) < Hist(d, stim)
                   => Len(num_side_select(pool, other)) = 0}

\* randint(0, n): of a RandomState(seed) for an integer seed, of the global
\* generator otherwise
randint(sd, n) ==
    IF sd = NoSeed THEN 0..(n - 1) ELSE {Interval(Seeded(sd), n - 1)}

\* at most MaxTrials trials are started and MaxSamples outcomes sampled
MaxTrials == 2

MaxSamples == 1

\* a pool of one setting, as utils.get_payoff_dict passes it
OneSetting == <<ExperimentPool[1]>>

TrialPools == {get_payoff_settings(700).value, PoolWithDuplicate, OneSetting}

InitTrials ==
    /\ fn = "get_random_payoff_dict"
    /\ pc = "call"
    /\ error = NoError
    /\ payoff_settings \in TrialPools
    /\ first_pool = payoff_settings
    /\ pool_in = <<>>
    /\ pseudorand \in BOOLEAN
    /\ seed \in Seeds
    /\ df = <<>>
    /\ presented = <<>>
    /\ ev_diff = 0
    /\ payoff_setting = <<>>
    /\ payoff_dict = <<>>
    /\ SamplerLocalsIdle
    /\ DesignIdle
    /\ LogIdle
    /\ SerialIdle
    /\ UnitsIdle

\* lines 230-253: the dict of the selected row, and the pool without the row
ReturnDictAndPool(selected_row_idx) ==
    /\ payoff_setting' = payoff_settings[selected_row_idx + 1]
    /\ payoff_dict' = get_payoff_dict(payoff_settings[selected_row_idx + 1])
    /\ payoff_settings' = Delete(payoff_settings, {selected_row_idx})
    /\ presented' = Append(presented, payoff_settings[selected_row_idx + 1])
    /\ pc' = "returned"
    /\ UNCHANGED error

\* lines 208-253: one call, with the pool the call before returned
GetRandomPayoffDict ==
    /\ fn = "get_random_payoff_dict"
    /\ pc \in {"call", "returned"}
    /\ Len(presented) < MaxTrials
    /\ pool_in' = payoff_settings
    /\ IF pseudorand
       THEN IF stims_to_show(df, payoff_settings) = {}
            THEN /\ Raise("RuntimeError")
                 /\ UNCHANGED <<payoff_settings, payoff_setting, payoff_dict,
                                presented>>
            ELSE \E stim \in stims_to_show(df, payoff_settings) :
                 \E num_side_select_idx \in
                        randint(seed, Len(num_side_select(payoff_settings, stim))) :
                     ReturnDictAndPool(
                         FirstIndex(payoff_settings,
                                    num_side_select(payoff_settings, stim)
                                        [num_side_select_idx + 1]))
       ELSE IF Len(payoff_settings) = 0
            THEN /\ Raise("ValueError")
                 /\ UNCHANGED <<payoff_settings, payoff_setting, payoff_dict,
                                presented>>
            ELSE \E selected_row_idx \in randint(seed, Len(payoff_settings)) :
                     ReturnDictAndPool(selected_row_idx)
    /\ UNCHANGED <<fn, ev_diff, pseudorand, df, first_pool, seed,
                   SamplerLocalsVars, design_vars, log_vars, serial_vars,
                   unit_vars>>

\* sp.py lines 549 and 730: an outcome of the sampled side is drawn and
\* logged; the log is the df of the next pseudorandom draw
SampleOutcome ==
    /\ fn = "get_random_payoff_dict"
    /\ pc = "returned"
    /\ pseudorand
    /\ Len(df) < MaxSamples
    /\ \E action \in {0, 1} :
       \E outcome \in Range(payoff_dict[action + 1]) :
           df' = Append(df, outcome * (action * 2 - 1))
    /\ UNCHANGED <<fn, pc, payoff_settings, error, settings_vars,
                   sampler_vars, pseudorand, presented, pool_in, first_pool,
                   design_vars, log_vars, serial_vars, unit_vars>>

NextTrials == GetRandomPayoffDict \/ SampleOutcome

SpecTrials == InitTrials /\ [][NextTrials]_vars

----------------------------------------------------------------------------
(* Properties of get_random_payoff_settings *)

SamplerReturned == fn = "get_random_payoff_settings" /\ pc = "returned"

SamplerRaised == fn = "get_random_payoff_settings" /\ pc = "raised"

\* the number of rows of arr equal to row
Occurrences(arr, row) == Cardinality({i \in 1..Len(arr) : arr[i] = row})

\* the number of rows of arr that hold the class's magnitude in the two
\* magnitude columns of the class's side
ClassRows(arr, stim) ==
    Cardinality({i \in 1..Len(arr) :
        IF stim < 0
        THEN Fixed(arr[i], 0) = Abs(stim) * Scale \/ Fixed(arr[i], 1) = Abs(stim) * Scale
        ELSE Fixed(arr[i], 4) = Abs(stim) * Scale \/ Fixed(arr[i], 5) = Abs(stim) * Scale})

C2_ClassQuota ==
    SamplerReturned =>
        \A k \in 1..n_classes :
            ClassRows(rand_payoff_settings, stim_classes[k])
                >= max_ntrls \div n_classes

\* a return after two rows were drawn for every class
C2_Witness ==
    /\ SamplerReturned
    /\ max_ntrls \div n_classes >= 2
    /\ \A k \in 1..n_classes :
           ClassRows(rand_payoff_settings, stim_classes[k]) >= 2

\* C3: when max_ntrls is a multiple of 18 and every class has enough
\* candidates (no RuntimeError), get_random_payoff_settings completes
\* without error and returns max_ntrls / 18 quota rows for each class.
C3_MultipleOf18Completes ==
    max_ntrls % n_classes = 0 =>
        /\ SamplerRaised => error = "RuntimeError"
        /\ SamplerReturned =>
               /\ Len(rand_payoff_settings) = max_ntrls
               /\ \A k \in 1..n_classes :
                      ClassRows(rand_payoff_settings, stim_classes[k])
                          >= max_ntrls \div n_classes

\* C4: a second call with the same integer seed, pool, max_ntrls and cutoff_p
\* returns the array the first call returned.
C4_SameSeedSameArray ==
    (SamplerReturned /\ call_no = 2 /\ seed # NoSeed) =>
        /\ first_return[1].error = NoError
        /\ first_return[1].value = rand_payoff_settings

\* both calls returned an array of quota rows and leftover rows
C4_Witness ==
    /\ SamplerReturned
    /\ call_no = 2
    /\ seed # NoSeed
    /\ first_return[1].error = NoError
    /\ n_stims_per_class(max_ntrls) > 0
    /\ n_random_stims(max_ntrls) > 0
    /\ Len(rand_payoff_settings) = max_ntrls

\* the rows of the pool that hold the class's magnitude on the class's side
SideRows(pool, stim) ==
    {i \in 1..Len(pool) :
        \E c \in (IF stim < 0 THEN {0, 1} ELSE {4, 5}) :
            Col(pool[i], c) = Abs(stim)}

\* the rows of SideRows whose probability paired with the magnitude is
\* strictly above the cutoff
CandidateRows(pool, stim, cutoff) ==
    {i \in 1..Len(pool) :
        \E c \in (IF stim < 0 THEN {0, 1} ELSE {4, 5}) :
            Col(pool[i], c) = Abs(stim) /\ Col(pool[i], c + 2) > cutoff}

\* C11: a class whose candidate subset of the shrinking pool has fewer than
\* 4 * floor(max_ntrls / 18) rows makes the call raise RuntimeError; no quota
\* is drawn from it and no array is returned.
C11_UndersizedRaises ==
    [][(/\ fn = "get_random_payoff_settings"
        /\ pc = "loop"
        /\ Cardinality(CandidateRows(payoff_settings_reducing,
                                     stim_classes[nth_stimclass + 1], cutoff_p))
               < 4 * (max_ntrls \div n_classes))
       => (/\ pc' = "raised"
           /\ error' = "RuntimeError"
           /\ idxs_into_payoffs' = idxs_into_payoffs
           /\ payoff_settings_reducing' = payoff_settings_reducing
           /\ rand_payoff_settings' = <<>>)]_vars

\* a class after the first was found undersized and the call raised
C11_Witness ==
    /\ SamplerRaised
    /\ error = "RuntimeError"
    /\ nth_stimclass > 0
    /\ Cardinality(CandidateRows(payoff_settings_reducing,
                                 stim_classes[nth_stimclass + 1], cutoff_p))
           < 4 * (max_ntrls \div n_classes)
    /\ rand_payoff_settings = <<>>

\* the slots of the class with 0-based position k
QuotaSlots(k) ==
    {j \in 1..Len(idxs_into_payoffs) :
        /\ j > k * (max_ntrls \div n_classes)
        /\ j <= (k + 1) * (max_ntrls \div n_classes)}

\* C17: every row drawn for a class in the quota phase holds the class's
\* magnitude in that side's magnitude columns with a paired probability
\* strictly above cutoff_p, and a negative cutoff_p excludes no row.
C17_QuotaRowsOfClass ==
    fn = "get_random_payoff_settings" =>
        /\ \A k \in 0..(nth_stimclass - 1) : \A j \in QuotaSlots(k) :
               idxs_into_payoffs[j] + 1
                   \in CandidateRows(payoff_settings, stim_classes[k + 1],
                                     cutoff_p)
        /\ (pc = "loop" /\ cutoff_p < 0) =>
               Len(num_side_prob_select(payoff_settings_reducing,
                                        stim_classes[nth_stimclass + 1],
                                        cutoff_p))
                   = Cardinality(SideRows(payoff_settings_reducing,
                                          stim_classes[nth_stimclass + 1]))

\* all classes drew their quota under the cutoff of the experiment
C17_Witness ==
    /\ fn = "get_random_payoff_settings"
    /\ pc = "asserts"
    /\ cutoff_p = CUTOFF_P
    /\ max_ntrls \div n_classes >= 1
    /\ \A k \in 0..(n_classes - 1) : \A j \in QuotaSlots(k) :
           idxs_into_payoffs[j] # NaN

\* the rows of the original pool that the slots filled so far point to
AssignedRows ==
    {payoff_settings[idxs_into_payoffs[j] + 1] :
        j \in {k \in 1..Len(idxs_into_payoffs) : idxs_into_payoffs[k] # NaN}}

\* the rows that the slots of the classes processed so far point to
QuotaRows ==
    {payoff_settings[idxs_into_payoffs[j] + 1] :
        j \in UNION {QuotaSlots(k) : k \in 0..(nth_stimclass - 1)}}

\* C27: in the quota phase and at the remainder draw the shrinking pool and
\* the rows assigned to trial slots are disjoint and together make up the
\* original pool, and after k classes the shrinking pool has the length of
\* the pool less k * floor(max_ntrls / 18); so no candidate of a later class
\* or of the remainder draw is a row drawn before. After the remainder draw
\* the same holds of the rows of the quota slots.
C27_PoolSplitInTwo ==
    /\ (fn = "get_random_payoff_settings" /\ pc \in {"loop", "asserts", "leftover"}) =>
           /\ Range(payoff_settings_reducing) \cap AssignedRows = {}
           /\ Range(payoff_settings_reducing) \cup AssignedRows
                  = Range(payoff_settings)
           /\ Len(payoff_settings_reducing)
                  = Len(payoff_settings)
                        - nth_stimclass * n_stims_per_class(max_ntrls)
           /\ pc = "loop" =>
                  \A c \in Range(num_side_prob_select(
                                     payoff_settings_reducing,
                                     stim_classes[nth_stimclass + 1],
                                     cutoff_p)) : c \notin AssignedRows
    /\ (fn = "get_random_payoff_settings" /\ pc \in {"shuffle", "returned"}) =>
           /\ Range(payoff_settings_reducing) \cap QuotaRows = {}
           /\ Range(payoff_settings_reducing) \cup QuotaRows
                  = Range(payoff_settings)
           /\ AssignedRows \ QuotaRows \subseteq Range(payoff_settings_reducing)

\* the remainder draw is reached after two rows were taken out of the pool
\* for each of the 18 classes
C27_Witness ==
    /\ fn = "get_random_payoff_settings"
    /\ pc = "leftover"
    /\ nth_stimclass = n_classes
    /\ n_stims_per_class(max_ntrls) = 2
    /\ n_random_stims(max_ntrls) > 0
    /\ Cardinality(AssignedRows) = 2 * n_classes
    /\ Len(payoff_settings_reducing) = Len(payoff_settings) - 2 * n_classes

\* C18: the generator is seeded once in a call: each class draw after the
\* first continues the stream the draw before it left.
C18_SeededOnce ==
    [][(/\ fn = "get_random_payoff_settings"
        /\ pc = "loop"
        /\ nth_stimclass > 0
        /\ pc' # "raised")
       => rng' = permutation(rng,
                     Cardinality(CandidateRows(payoff_settings_reducing,
                                     stim_classes[nth_stimclass + 1],
                                     cutoff_p))).rng]_vars

\* C19: the call returns only if no two trial slots, quota or remainder,
\* hold the same pool index.
C19_NoDuplicateSlot ==
    SamplerReturned =>
        \A i, j \in 1..Len(idxs_into_payoffs) :
            i # j => idxs_into_payoffs[i] # idxs_into_payoffs[j]

----------------------------------------------------------------------------
(* Properties of get_payoff_settings and get_payoff_dict *)

PoolReturned == fn = "get_payoff_settings" /\ pc = "returned"

\* expected value of one side, from its magnitude and probability columns
SideEv(row, m1, m2, p1, p2) == Col(row, m1) * Col(row, p1)
                                   + Col(row, m2) * Col(row, p2)

\* C5: every row of the returned pool has an absolute difference of expected
\* values between the left and the right side equal to ev_diff.
C5_EvDifference ==
    PoolReturned =>
        \A n \in 1..Len(payoff_settings) :
            LET row == payoff_settings[n]
                d == SideEv(row, 0, 1, 2, 3) - SideEv(row, 4, 5, 6, 7)
            IN d = ev_diff \/ 0 - d = ev_diff

C5_Witness ==
    /\ PoolReturned
    /\ ev_diff = expected_value_diff
    /\ Len(payoff_settings) > 0

\* C6: in every row of the returned pool the four magnitudes (columns 0, 1,
\* 4, 5) are pairwise distinct.
C6_DistinctMagnitudes ==
    PoolReturned =>
        \A n \in 1..Len(payoff_settings) :
            \A c, d \in MagCols :
                c # d => Col(payoff_settings[n], c) # Col(payoff_settings[n], d)

C6_Witness ==
    /\ PoolReturned
    /\ ev_diff = test_ev_diff
    /\ Len(payoff_settings) > 0

\* both magnitudes in columns a1, a2 are strictly greater than both in b1, b2
BothGreater(row, a1, a2, b1, b2) ==
    /\ Col(row, a1) > Col(row, b1) /\ Col(row, a1) > Col(row, b2)
    /\ Col(row, a2) > Col(row, b1) /\ Col(row, a2) > Col(row, b2)

\* C7: no row of the returned pool is dominated: neither side has both its
\* magnitudes strictly greater than both magnitudes of the other side.
C7_NoDominatedRow ==
    PoolReturned =>
        \A n \in 1..Len(payoff_settings) :
            /\ ~BothGreater(payoff_settings[n], 0, 1, 4, 5)
            /\ ~BothGreater(payoff_settings[n], 4, 5, 0, 1)

\* a pool from which the dominance filter had rows to drop, and kept some
C7_Witness ==
    /\ PoolReturned
    /\ Len(payoff_settings) > 0
    /\ ev_diff > 6 * Scale

\* C8: in every row of the returned pool the magnitudes are integers in
\* 1..9, the probabilities are multiples of 0.1 in 0.1..0.9, and the two
\* probabilities of a side sum to 1.
C8_ValueRanges ==
    PoolReturned =>
        \A n \in 1..Len(payoff_settings) :
            LET row == payoff_settings[n]
            IN /\ \A c \in MagCols : Col(row, c) \in 1..9
               /\ \A c \in ProbCols :
                     /\ Col(row, c) % Tenth = 0
                     /\ Col(row, c) >= Tenth
                     /\ Col(row, c) <= Scale - Tenth
               /\ Col(row, 2) + Col(row, 3) = Scale
               /\ Col(row, 6) + Col(row, 7) = Scale

C8_Witness ==
    /\ PoolReturned
    /\ \E n \in 1..Len(payoff_settings) :
          Col(payoff_settings[n], 2) = Tenth /\ Col(payoff_settings[n], 7) = Tenth

\* no pair of single-side distributions passes the EV-difference and the
\* distinctness filter for evd
NoCandidate(evd) ==
    \A a, b \in Range(single_distr) :
        LET d == (a[1] * a[3] + a[2] * a[4]) - (b[1] * b[3] + b[2] * b[4])
        IN ~ /\ (d = evd \/ 0 - d = evd)
             /\ Cardinality({a[1], a[2], b[1], b[2]}) = 4

\* C9: when no candidate passes the EV-difference and distinctness filters,
\* get_payoff_settings returns an empty pool and does not fail.
C9_EmptyPoolReturned ==
    (fn = "get_payoff_settings" /\ pc # "call" /\ NoCandidate(ev_diff)) =>
        (pc = "returned" /\ error = NoError /\ Len(payoff_settings) = 0)

\* the data-model invariants of a payoff setting
ValidSetting(row) ==
    /\ \A c \in MagCols : Col(row, c) \in 1..9
    /\ \A c, d \in MagCols : c # d => Col(row, c) # Col(row, d)
    /\ \A c \in ProbCols : Col(row, c) % Tenth = 0 /\ Col(row, c) \in 1..(Scale - 1)
    /\ Col(row, 2) + Col(row, 3) = Scale
    /\ Col(row, 6) + Col(row, 7) = Scale

Count(list, v) == Cardinality({i \in 1..Len(list) : list[i] = v})

\* C10: for a valid setting each side's list has exactly 10 entries and each
\* magnitude of the side occurs 10 * probability times, so count / 10 gives
\* back the setting's probabilities.
C10_RoundTrip ==
    (fn = "get_payoff_dict" /\ ValidSetting(payoff_setting)) =>
        /\ Len(payoff_dict[1]) = 10
        /\ Len(payoff_dict[2]) = 10
        /\ Count(payoff_dict[1], Col(payoff_setting, 0)) * Tenth = Col(payoff_setting, 2)
        /\ Count(payoff_dict[1], Col(payoff_setting, 1)) * Tenth = Col(payoff_setting, 3)
        /\ Count(payoff_dict[2], Col(payoff_setting, 4)) * Tenth = Col(payoff_setting, 6)
        /\ Count(payoff_dict[2], Col(payoff_setting, 5)) * Tenth = Col(payoff_setting, 7)

C10_Witness ==
    /\ fn = "get_payoff_dict"
    /\ ValidSetting(payoff_setting)
    /\ Col(payoff_setting, 2) = 3 * Tenth
    /\ Col(payoff_setting, 6) = 9 * Tenth
    /\ Len(payoff_dict[1]) = 10

\* C20: get_payoff_dict rejects a probability that is not a multiple of 0.1,
\* so a returned side list of a setting without NaN always has 10 entries.
C20_WholeNumberChecked ==
    (/\ fn = "get_payoff_dict"
     /\ pc = "returned"
     /\ \A c \in 0..7 : Col(payoff_setting, c) # NaN)
    => (Len(payoff_dict[1]) = 10 /\ Len(payoff_dict[2]) = 10)

\* the single-side distributions of the reference: mag1 < mag2 in 1..9,
\* prob1 a tenth in 0.1..0.9, prob2 = 1 - prob1
ReferenceSides ==
    {s \in {<<m1, m2, t * Tenth, Scale - t * Tenth>> :
                m1 \in 1..9, m2 \in 1..9, t \in 1..9} : s[1] < s[2]}

\* the ordered pairs (left, right) of the reference for evd, as rows
ReferenceRows(evd) ==
    {a \o b : <<a, b>> \in
        {ab \in ReferenceSides \X ReferenceSides :
            LET l == ab[1]
                r == ab[2]
                d == (l[1] * l[3] + l[2] * l[4]) - (r[1] * r[3] + r[2] * r[4])
            IN /\ (d = evd \/ 0 - d = evd)
               /\ Cardinality({l[1], l[2], r[1], r[2]}) = 4
               /\ ~(l[1] > r[2] /\ l[2] > r[2] /\ l[1] > r[1] /\ l[2] > r[1])
               /\ ~(r[1] > l[2] /\ r[2] > l[2] /\ r[1] > l[1] /\ r[2] > l[1])}}

\* C21: the returned pool holds every row of the reference for ev_diff (the
\* ordered pairs of single-side distributions with that absolute difference
\* of expected values, four distinct magnitudes and no dominated side)
\* exactly once and no other row; a call raises only when the reference is
\* empty.
C21_ExactlyTheReference ==
    /\ PoolReturned =>
           /\ Range(payoff_settings) = ReferenceRows(ev_diff)
           /\ Len(payoff_settings) = Cardinality(ReferenceRows(ev_diff))
    /\ (fn = "get_payoff_settings" /\ pc = "raised") =>
           ReferenceRows(ev_diff) = {}

\* the pool of the experiment, with rows that favour either side
C21_Witness ==
    /\ PoolReturned
    /\ ev_diff = expected_value_diff
    /\ Len(payoff_settings) > n_classes
    /\ \E n, m \in 1..Len(payoff_settings) :
          /\ SideEv(payoff_settings[n], 0, 1, 2, 3)
                 > SideEv(payoff_settings[n], 4, 5, 6, 7)
          /\ SideEv(payoff_settings[m], 0, 1, 2, 3)
                 < SideEv(payoff_settings[m], 4, 5, 6, 7)

----------------------------------------------------------------------------
(* Properties of get_random_payoff_dict *)

TrialReturned == fn = "get_random_payoff_dict" /\ pc = "returned"

\* arr without its row at the 1-based position i
WithoutRow(arr, i) ==
    [n \in 1..(Len(arr) - 1) |-> IF n < i THEN arr[n] ELSE arr[n + 1]]

\* C12: a call on a pool of n >= 1 rows returns n - 1 rows, the input pool
\* without the row the returned dict was built from; over the trial starts
\* the pool only shrinks and no pool row is presented twice.
C12_PoolShrinksByTheRow ==
    TrialReturned =>
        /\ Len(payoff_settings) = Len(pool_in) - 1
        /\ \E i \in 1..Len(pool_in) :
               /\ pool_in[i] = payoff_setting
               /\ payoff_settings = WithoutRow(pool_in, i)
        /\ payoff_dict = get_payoff_dict(payoff_setting)
        /\ presented[Len(presented)] = payoff_setting
        /\ Len(payoff_settings) = Len(first_pool) - Len(presented)
        /\ \A i \in 1..Len(first_pool) :
               Occurrences(presented, first_pool[i])
                   + Occurrences(payoff_settings, first_pool[i])
                   = Occurrences(first_pool, first_pool[i])

\* a second trial started with a pseudorandom draw after an outcome was shown
C12_Witness ==
    /\ TrialReturned
    /\ pseudorand
    /\ Len(presented) = 2
    /\ Len(df) >= 1
    /\ Len(pool_in) > 2
    /\ Len(payoff_settings) = Len(pool_in) - 1


----------------------------------------------------------------------------
(* log_data and _get_payoff_setting (utils.py).  A line of the log file is  *)
(* a record of the columns trial, action_type, action, value and the eight  *)
(* setting columns; the columns onset, duration, outcome, response_time,    *)
(* version, reset and the time stamp are left out.                          *)

\* the string 'n/a' in a column of numbers: read_csv reads it as NaN
NA == NaN

\* payoff_dict='n/a'
NoDict == <<>>

\* ord(trigger_dict['trig_error'])
trig_error == 20

\* action_type_dict[action]
action_type_dict(action) ==
    CASE action \in {0, 1} -> "sample"
      [] action = 2 -> "stop"
      [] action \in {3, 4} -> "final_choice"
      [] action \in {5, 6} -> "forced_stop"
      [] action = 7 -> "premature_stop"
      [] action = NA -> "n/a"

\* the final choices logged under their own codes
logged_action_FinalChoiceKept(action) ==
    IF action \in {5, 6} THEN action - 5
    ELSE IF action = 7 THEN 2
    ELSE action

\* the action column: the side 0 or 1, or 2 for a stop
logged_action(action) ==
    IF action \in {5, 6} THEN action - 5
    ELSE IF action = 7 THEN 2
    ELSE IF action # NA
         THEN (IF action \in {3, 4} THEN action - 3 ELSE action)
         ELSE action

\* xs.count(v)
count(xs, v) == Cardinality({i \in 1..Len(xs) : xs[i] = v})

\* the distinct elements of xs in the order of their first occurrence
RECURSIVE Distinct(_)
Distinct(xs) ==
    IF Len(xs) = 0 THEN <<>>
    ELSE LET before == Distinct(SubSeq(xs, 1, Len(xs) - 1))
             last == xs[Len(xs)]
         IN IF last \in Range(before) THEN before ELSE Append(before, last)

\* CPython's set of up to four small ints: a table of eight slots
SetSlots == 8

EmptySlot == 0 - 2

\* the slot an entry lands in: i = hash & mask, then i = (i*5 + 1) & mask
\* while the slot is taken (the hash of a small int is the int)
RECURSIVE Probe(_, _)
Probe(i, used) ==
    IF i \in used THEN Probe((i * 5 + 1) % SetSlots, used) ELSE i

\* the table after the distinct elements d were added in their order
RECURSIVE SetTable(_)
SetTable(d) ==
    IF Len(d) = 0 THEN [i \in 0..(SetSlots - 1) |-> EmptySlot]
    ELSE LET t == SetTable(SubSeq(d, 1, Len(d) - 1))
             v == d[Len(d)]
             used == {i \in 0..(SetSlots - 1) : t[i] # EmptySlot}
         IN [t EXCEPT ![Probe(v % SetSlots, used)] = v]

IsEntry(v) == v # EmptySlot

\* list(set(xs)): the table's entries slot by slot in CPython; the language
\* leaves the order open, other builds keep the order of insertion
list_of_set(xs, order) ==
    IF order = "insertion" THEN Distinct(xs)
    ELSE LET t == SetTable(Distinct(xs))
         IN SelectSeq([i \in 1..SetSlots |-> t[i - 1]], IsEntry)

SetOrders == {"hash", "insertion"}

\* the loop over one side: out_i, prob_i, out_i, prob_i
side_columns(distr, order) ==
    LET outs == list_of_set(distr, order)
    IN [k \in 1..(2 * Len(outs)) |->
           IF k % 2 = 1
           THEN outs[(k + 1) \div 2]
           ELSE (count(distr, outs[k \div 2]) * Scale) \div Len(distr)]

\* setting in log_data: mag, prob, mag, prob per side
logged_setting(pdict, order) ==
    IF pdict = NoDict
    THEN [k \in 1..8 |-> NA]
    ELSE side_columns(pdict[1], order) \o side_columns(pdict[2], order)

\* df['trial'] == trl: a missing trial number (NaN) equals nothing
SameTrial(a, trl) == a # NA /\ trl # NA /\ a = trl

\* a comparison that spares the error row itself
AtOrBefore_Before(i, idx) == i < idx

\* df.index <= idx
AtOrBefore(i, idx) == i <= idx

\* remove_error_rows: for every row idx that carries the error trigger the
\* rows of its trial at or before it are collected in remove_idx, and dropped
remove_error_rows(lines, error_trig) ==
    LET Idx == [i \in 1..Len(lines) |-> i]
        error_idx == {idx \in 1..Len(lines) : lines[idx].value = error_trig}
        remove_idx ==
            UNION {{i \in 1..Len(lines) :
                       /\ SameTrial(lines[i].trial, lines[idx].trial)
                       /\ AtOrBefore(i, idx)} : idx \in error_idx}
        Keep(i) == i \notin remove_idx
        kept == SelectSeq(Idx, Keep)
    IN [n \in 1..Len(kept) |-> lines[kept[n]]]

\* tmp_df.loc[:, 'mag0_1':'prob1_2'].dropna() of one trial
HasSetting(line) == \A k \in 1..8 : line.setting[k] # NA

\* np.array(wrong_format_setting)[[0, 2, 1, 3, 4, 6, 5, 7]]
reorder(w) == <<w[1], w[3], w[2], w[4], w[5], w[7], w[6], w[8]>>

\* len(str(entry)) in [2, 3, 4] or entry in [98, 99]: entries are floats, a
\* magnitude prints as "d.0" or "dd.0", a probability of two decimals fits
RoundedEntry(row, c) == c \in ProbCols \/ Col(row, c) < 100

\* _get_payoff_setting(df, trial) with experienced=False
get_payoff_setting_from_df(lines, trl) ==
    LET clean == remove_error_rows(lines, trig_error)
        OfTrial(line) == line.trial = trl /\ HasSetting(line)
        tmp_df == SelectSeq(clean, OfTrial)
    IN IF Len(tmp_df) = 0
       THEN [error |-> "IndexError", value |-> <<>>]
       ELSE LET row == reorder(tmp_df[Len(tmp_df)].setting)
            IN IF \A c \in 0..7 : RoundedEntry(row, c)
               THEN [error |-> NoError, value |-> row]
               ELSE [error |-> "AssertionError", value |-> <<>>]

\* the number of lines written and of trials logged
MaxEvents == 2

MaxLogTrials == 2

\* the settings whose dicts are logged: the first rows of the pool of the
\* experiment and of the pool of test_log_data, and rows of a small pool
test_log_ev_diff == 10

LogPool ==
    LET small == get_payoff_settings(700).value
    IN <<ExperimentPool[1], get_payoff_settings(test_log_ev_diff).value[1],
         small[1], small[Len(small)]>>

ActionCodes == 0..7

InitLog ==
    /\ fn = "log_data"
    /\ pc = "call"
    /\ error = NoError
    /\ payoff_settings = LogPool
    /\ ev_diff = 0
    /\ payoff_setting = <<>>
    /\ payoff_dict = NoDict
    /\ SamplerIdle
    /\ TrialIdle
    /\ DesignIdle
    /\ SerialIdle
    /\ UnitsIdle
    /\ events = <<>>
    /\ trial = 0
    /\ log_action = NA
    /\ setting = <<>>
    /\ set_order \in SetOrders

\* one line appended to the file
WriteLine(trl, act, value, pdict) ==
    LET columns == logged_setting(pdict, set_order)
    IN IF Len(columns) # 8
       THEN /\ Raise("ValueError")
            /\ UNCHANGED events
       ELSE /\ events' = Append(events,
                                [trial |-> trl,
                                 action_type |-> action_type_dict(act),
                                 action |-> logged_action(act),
                                 value |-> value,
                                 setting |-> columns])
            /\ pc' = "returned"
            /\ error' = NoError

\* log_data(fpath, trial=trl, action=act),
\* log_data(fpath, trial=trl, value=trig_error, reset=True) or
\* log_data(fpath, trial=trl, payoff_dict=get_payoff_dict(row))
LogData ==
    /\ pc \in {"call", "returned"}
    /\ Len(events) < MaxEvents
    /\ fn' = "log_data"
    /\ \E trl \in 0..(MaxLogTrials - 1) :
          /\ trial' = trl
          /\ \/ \E act \in ActionCodes \cup {NA} :
                   /\ log_action' = act
                   /\ WriteLine(trl, act, NA, NoDict)
                   /\ payoff_dict' = NoDict
                   /\ UNCHANGED payoff_setting
             \/ /\ log_action' = NA
                /\ WriteLine(trl, NA, trig_error, NoDict)
                /\ payoff_dict' = NoDict
                /\ UNCHANGED payoff_setting
             \/ \E i \in 1..Len(payoff_settings) :
                   /\ log_action' = NA
                   /\ payoff_setting' = payoff_settings[i]
                   /\ payoff_dict' = get_payoff_dict(payoff_settings[i])
                   /\ WriteLine(trl, NA, NA,
                                get_payoff_dict(payoff_settings[i]))
    /\ UNCHANGED <<payoff_settings, ev_diff, setting, set_order, sampler_vars,
                   trial_vars, design_vars, serial_vars, unit_vars>>

\* setting = _get_payoff_setting(df, trl) on the file as it is
GetPayoffSetting ==
    /\ pc \in {"call", "returned"}
    /\ fn' = "_get_payoff_setting"
    /\ \E trl \in 0..(MaxLogTrials - 1) :
          LET read == get_payoff_setting_from_df(events, trl)
          IN /\ trial' = trl
             /\ IF read.error # NoError
                THEN /\ Raise(read.error)
                     /\ UNCHANGED setting
                ELSE /\ setting' = read.value
                     /\ pc' = "returned"
                     /\ error' = NoError
    /\ UNCHANGED <<payoff_settings, settings_vars, events, log_action,
                   set_order,
                   sampler_vars, trial_vars, design_vars, serial_vars,
                   unit_vars>>

NextLog == LogData \/ GetPayoffSetting

SpecLog == InitLog /\ [][NextLog]_vars

----------------------------------------------------------------------------
(* Properties of log_data *)

LogReturned == fn = "log_data" /\ pc = "returned"

LastLine == events[Len(events)]

LoggedWithDict == LogReturned /\ payoff_dict # NoDict

\* the setting read back is the one of the line written last
ReadBackLast ==
    /\ fn = "_get_payoff_setting"
    /\ pc = "returned"
    /\ Len(events) >= 1
    /\ LastLine.trial = trial
    /\ HasSetting(LastLine)
    /\ LastLine.value # trig_error

\* C13: the eight columns written for a dict built from a valid setting hold
\* each magnitude followed by its own probability, and read back through
\* _get_payoff_setting they are the setting column for column, the first
\* magnitude of each side first.
C13_RoundTripKeepsOrder ==
    /\ LoggedWithDict =>
           /\ \A k \in {1, 3, 5, 7} :
                  \E m \in {0, 1, 4, 5} :
                      /\ LastLine.setting[k] = Col(payoff_setting, m)
                      /\ LastLine.setting[k + 1] = Col(payoff_setting, m + 2)
           /\ reorder(LastLine.setting) = payoff_setting
    /\ ReadBackLast => setting = payoff_setting

\* the table of action codes: code, action type, action value
ActionTable ==
    {<<0, "sample", 0>>, <<1, "sample", 1>>, <<2, "stop", 2>>,
     <<3, "final_choice", 0>>, <<4, "final_choice", 1>>,
     <<5, "forced_stop", 0>>, <<6, "forced_stop", 1>>,
     <<7, "premature_stop", 2>>, <<NA, "n/a", NA>>}

----------------------------------------------------------------------------
(* provide_experimental_design (define_settings.py).  The three maps are    *)
(* tuples indexed by the participant IDs 1..n.                              *)

\* n_participants = 40
n_participants_setting == 40

MaxParticipants == 41

\* the positions of the four slice assignments to yokes
YokePc == <<"yokes0", "yokes1", "yokes2", "yokes3">>

\* every slice filled from its own IDs
YokeSource_Own(k) == k

\* the slice of ids that yokes[k::4] is filled from: ids[::4] or ids[1::4]
YokeSource(k) == k % 2

\* the element i (an ID, 1-based) of yokes after yokes[k::4] = ids[src::4]
SliceAssigned(yokes, k, src) ==
    [i \in 1..Len(yokes) |->
        IF (i - 1) % 4 = k
        THEN src + 4 * ((i - 1) \div 4) + 1
        ELSE yokes[i]]

\* np.tile(np.array((False, True)), reps), zipped with the IDs
opt_stops(n, reps) ==
    LET len == IF 2 * reps < n THEN 2 * reps ELSE n
    IN [i \in 1..len |-> (i - 1) % 2 = 1]

\* np.repeat(np.arange(1, n / 4 + 1), 4).astype(int), zipped with the IDs
seeds(n) ==
    LET len == IF 4 * (n \div 4) < n THEN 4 * (n \div 4) ELSE n
    IN [i \in 1..len |-> ((i - 1) \div 4) + 1]

InitDesign ==
    /\ fn = "provide_experimental_design"
    /\ pc = "call"
    /\ error = NoError
    /\ payoff_settings = <<>>
    /\ ev_diff = 0
    /\ payoff_setting = <<>>
    /\ payoff_dict = <<>>
    /\ SamplerIdle
    /\ TrialIdle
    /\ LogIdle
    /\ SerialIdle
    /\ UnitsIdle
    /\ n_participants \in 0..MaxParticipants
    /\ yoke_map = <<>>
    /\ opt_stop_map = <<>>
    /\ seed_map = <<>>

DesignFrame ==
    UNCHANGED <<fn, payoff_settings, settings_vars, sampler_vars, trial_vars,
                log_vars, serial_vars, unit_vars, n_participants>>

\* lines 56-64: the test of the number, ids, yokes = np.empty(ids.size)
CheckParticipants ==
    /\ fn = "provide_experimental_design"
    /\ pc = "call"
    /\ IF n_participants % 4 # 0
       THEN /\ Raise("ValueError")
            /\ UNCHANGED yoke_map
       ELSE /\ yoke_map' = [i \in 1..n_participants |-> NaN]
            /\ pc' = YokePc[1]
            /\ UNCHANGED error
    /\ UNCHANGED <<opt_stop_map, seed_map>>
    /\ DesignFrame

\* lines 65-68: yokes[k::4] = ids[0::4] or ids[1::4]
AssignYokes ==
    /\ fn = "provide_experimental_design"
    /\ \E k \in 0..3 :
          /\ pc = YokePc[k + 1]
          /\ yoke_map' = SliceAssigned(yoke_map, k, YokeSource(k))
          /\ pc' = IF k < 3 THEN YokePc[k + 2] ELSE "opt_stops"
    /\ UNCHANGED <<error, opt_stop_map, seed_map>>
    /\ DesignFrame

\* lines 73-74
AssignOptStops ==
    /\ fn = "provide_experimental_design"
    /\ pc = "opt_stops"
    /\ opt_stop_map' = opt_stops(n_participants, n_participants \div 2)
    /\ pc' = "seeds"
    /\ UNCHANGED <<error, yoke_map, seed_map>>
    /\ DesignFrame

\* lines 78-82
AssignSeeds ==
    /\ fn = "provide_experimental_design"
    /\ pc = "seeds"
    /\ seed_map' = seeds(n_participants)
    /\ pc' = "returned"
    /\ UNCHANGED <<error, yoke_map, opt_stop_map>>
    /\ DesignFrame

NextDesign ==
    \/ CheckParticipants
    \/ AssignYokes
    \/ AssignOptStops
    \/ AssignSeeds

SpecDesign == InitDesign /\ [][NextDesign]_vars

----------------------------------------------------------------------------
(* Properties of provide_experimental_design *)

DesignReturned == fn = "provide_experimental_design" /\ pc = "returned"

\* C14: for a number of participants divisible by 4 the maps cover the IDs
\* 1..n; in every block of four IDs a..a+3 the yoke targets are a, a+1, a,
\* a+1, opt_stop is False, True, False, True and the seed is the block
\* number, so a yoke target is yoked to itself and shares opt_stop and seed
\* with those yoked to it.  Any other number raises ValueError.
C14_BlocksOfFour ==
    /\ DesignReturned =>
          /\ n_participants % 4 = 0
          /\ DOMAIN yoke_map = 1..n_participants
          /\ DOMAIN opt_stop_map = 1..n_participants
          /\ DOMAIN seed_map = 1..n_participants
          /\ \A b \in 1..(n_participants \div 4) :
                LET a == 4 * (b - 1) + 1
                IN /\ <<yoke_map[a], yoke_map[a + 1], yoke_map[a + 2],
                        yoke_map[a + 3]>> = <<a, a + 1, a, a + 1>>
                   /\ <<opt_stop_map[a], opt_stop_map[a + 1],
                        opt_stop_map[a + 2], opt_stop_map[a + 3]>>
                          = <<FALSE, TRUE, FALSE, TRUE>>
                   /\ \A i \in a..(a + 3) : seed_map[i] = b
          /\ \A i \in 1..n_participants :
                /\ yoke_map[yoke_map[i]] = yoke_map[i]
                /\ opt_stop_map[yoke_map[i]] = opt_stop_map[i]
                /\ seed_map[yoke_map[i]] = seed_map[i]
    /\ (fn = "provide_experimental_design" /\ pc # "call") =>
          (n_participants % 4 # 0
              <=> (pc = "raised" /\ error = "ValueError"))

\* the design of the experiment: forty participants in ten blocks
C14_Witness ==
    /\ DesignReturned
    /\ n_participants = n_participants_setting
    /\ yoke_map[39] = 37
    /\ opt_stop_map[40]
    /\ seed_map[40] = 10


----------------------------------------------------------------------------
(* My_serial and mysleep (utils.py).  The port is the sequence of the bytes *)
(* written to it; time is counted in milliseconds.                          *)

\* WAITSECS = 0.002
WAITSECS == 2

\* self.reset_val = bytes([0])
reset_val == 0

\* the triggers written: trig_begin_experiment, trig_end_experiment,
\* trig_error
TriggerBytes == {1, 2, trig_error}

\* the number of calls of My_serial.write
MaxWrites == 3

\* the longest time one turn of the loop in mysleep takes
MaxTick == 2

InitSerial ==
    /\ fn = "My_serial.write"
    /\ pc = "call"
    /\ error = NoError
    /\ payoff_settings = <<>>
    /\ ev_diff = 0
    /\ payoff_setting = <<>>
    /\ payoff_dict = <<>>
    /\ SamplerIdle
    /\ TrialIdle
    /\ DesignIdle
    /\ LogIdle
    /\ UnitsIdle
    /\ ser = <<>>
    /\ byte = 0
    /\ twaited = 0

SerialFrame ==
    UNCHANGED <<fn, error, payoff_settings, settings_vars, sampler_vars,
                trial_vars, design_vars, log_vars, unit_vars>>

\* write(byte) is called: self.ser.write(byte), and mysleep starts
WriteByte ==
    /\ pc \in {"call", "returned"}
    /\ Len(ser) < 2 * MaxWrites
    /\ \E b \in TriggerBytes :
          /\ byte' = b
          /\ ser' = Append(ser, b)
    /\ twaited' = 0
    /\ pc' = "mysleep"
    /\ SerialFrame

\* one turn of the loop of mysleep: twaited = perf_counter() - start
MySleep ==
    /\ pc = "mysleep"
    /\ IF twaited < WAITSECS
       THEN /\ \E tick \in 1..MaxTick : twaited' = twaited + tick
            /\ UNCHANGED pc
       ELSE /\ pc' = "reset"
            /\ UNCHANGED twaited
    /\ UNCHANGED <<ser, byte>>
    /\ SerialFrame

\* a write that returns after the sleep without the second write
ResetPort_Skipped ==
    /\ pc = "reset"
    /\ pc' = "returned"
    /\ UNCHANGED <<ser, byte, twaited>>
    /\ SerialFrame

\* self.ser.write(self.reset_val), and write returns
ResetPort ==
    /\ pc = "reset"
    /\ ser' = Append(ser, reset_val)
    /\ pc' = "returned"
    /\ UNCHANGED <<byte, twaited>>
    /\ SerialFrame

NextSerial == WriteByte \/ MySleep \/ ResetPort

SpecSerial == InitSerial /\ [][NextSerial]_vars

----------------------------------------------------------------------------
(* Properties of My_serial *)

SerialReturned == fn = "My_serial.write" /\ pc = "returned"

\* C16: a call of write has written its byte and then the zero byte when it
\* returns, so between calls the last byte written is zero, and a trigger
\* byte is never followed by anything but a zero.
C16_ResetAfterEveryByte ==
    /\ SerialReturned =>
          /\ Len(ser) >= 2
          /\ ser[Len(ser) - 1] = byte
          /\ ser[Len(ser)] = 0
          /\ twaited >= WAITSECS
    /\ (fn = "My_serial.write" /\ pc \in {"call", "returned"}) =>
          /\ Len(ser) % 2 = 0
          /\ Len(ser) > 0 => ser[Len(ser)] = 0
    /\ \A i \in 1..(Len(ser) - 1) : ser[i] # 0 => ser[i + 1] = 0

\* the third write in a row has returned, the error trigger among them
C16_Witness ==
    /\ SerialReturned
    /\ Len(ser) = 2 * MaxWrites
    /\ byte = 1
    /\ ser[1] = trig_error
    /\ ser[2] = 0
    /\ ser[3] = 2


----------------------------------------------------------------------------
(* provide_balancing_selection (define_payoff_settings.py), one action per  *)
(* turn of its loop.  df is the sequence of the stimulus classes shown so   *)
(* far: outcomes * (actions * 2 - 1).                                       *)

\* bins = np.hstack((np.arange(-9, 0), np.arange(1, 11)))
bins == [k \in 1..19 |-> IF k <= 9 THEN k - 10 ELSE k - 9]

n_bins == Len(bins) - 1

\* np.histogram: a bin holds its left edge, the last bin both edges
InBin(v, k) ==
    /\ bins[k] <= v
    /\ IF k = n_bins THEN v <= bins[k + 1] ELSE v < bins[k + 1]

\* stim_class_hist[0]
histogram(d) ==
    [k \in 1..n_bins |-> Cardinality({i \in 1..Len(d) : InBin(d[i], k)})]

\* the place argsort gives bin k among the bins of its count
TiePlace(k, ties) == IF ties = "descending" THEN n_bins + 1 - k ELSE k

\* the sort key of bin k: its count, then its place among equal counts
SortKey(counts, k, ties) == counts[k] * (n_bins + 1) + TiePlace(k, ties)

\* a sort that puts the classes seen most often first
argsort_Descending(counts, ties) ==
    [pos \in 1..n_bins |->
        CHOOSE k \in 1..n_bins :
            Cardinality({j \in 1..n_bins :
                SortKey(counts, j, ties) > SortKey(counts, k, ties)}) = pos - 1]

\* stim_class_arr[:, 0].argsort(): the bins in ascending order of their count
argsort(counts, ties) ==
    [pos \in 1..n_bins |->
        CHOOSE k \in 1..n_bins :
            Cardinality({j \in 1..n_bins :
                SortKey(counts, j, ties) < SortKey(counts, k, ties)}) = pos - 1]

\* stim_class_arr_sorted[:, 1]: the labels of the bins in that order
sorted_classes(d, ties) ==
    LET order == argsort(histogram(d), ties)
    IN [pos \in 1..n_bins |-> bins[order[pos]]]

ArgsortTies == {"ascending", "descending"}

\* The recorded data: up to MaxDfLen outcomes of the four classes of the
\* first row of the pool of the experiment, which follow each other in a
\* cycle (one class throughout, two in turns, or all four in turns).
MaxDfLen == 5

DfClasses == <<0 - 9, 0 - 4, 5, 6>>

DfCycle(start, stride, n) ==
    [i \in 1..n |->
        DfClasses[((start + (i - 1) * stride) % Len(DfClasses)) + 1]]

RecordedData ==
    {DfCycle(start, stride, n) :
        start \in 0..(Len(DfClasses) - 1),
        stride \in 0..(Len(DfClasses) - 1),
        n \in 0..MaxDfLen}

\* the pools: those of the trial starts, the empty pool a run of trials ends
\* with, and the first two rows of the pool of the experiment
EmptyPool == <<>>

BalancingPools ==
    TrialPools \cup {EmptyPool, <<ExperimentPool[1], ExperimentPool[2]>>}

InitBalancing ==
    /\ fn = "provide_balancing_selection"
    /\ pc = "call"
    /\ error = NoError
    /\ payoff_settings \in BalancingPools
    /\ df \in RecordedData
    /\ argsort_ties \in ArgsortTies
    /\ stim_class_arr_sorted = <<>>
    /\ stim_to_show_idx = 0
    /\ selection = <<>>
    /\ pseudorand = TRUE
    /\ presented = <<>>
    /\ pool_in = <<>>
    /\ first_pool = <<>>
    /\ ev_diff = 0
    /\ payoff_setting = <<>>
    /\ payoff_dict = <<>>
    /\ SamplerIdle
    /\ DesignIdle
    /\ LogIdle
    /\ SerialIdle
    /\ ErrorRowsIdle
    /\ FlowIdle
    /\ GazeIdle

BalancingFrame ==
    UNCHANGED <<fn, payoff_settings, settings_vars, sampler_vars, trial_vars,
                design_vars, log_vars, serial_vars, argsort_ties,
                error_rows_vars, flow_vars, gaze_vars>>

\* lines 281-303: the histogram, its sort, the first class in line
SortClasses ==
    /\ fn = "provide_balancing_selection"
    /\ pc = "call"
    /\ stim_class_arr_sorted' = sorted_classes(df, argsort_ties)
    /\ stim_to_show_idx' = 0
    /\ pc' = "loop"
    /\ UNCHANGED <<error, selection>>
    /\ BalancingFrame

\* a test that gives up one class early
OutOfClasses_OneEarly(idx, n) == idx = n - 1

\* stim_to_show_idx == stim_class_arr_sorted.shape[0]
OutOfClasses(idx, n) == idx = n

\* lines 307-341: one turn of the loop
TryClass ==
    /\ fn = "provide_balancing_selection"
    /\ pc = "loop"
    /\ LET stim_to_show == stim_class_arr_sorted[stim_to_show_idx + 1]
           found == num_side_select(payoff_settings, stim_to_show)
       IN IF Len(found) > 0
          THEN /\ selection' = found
               /\ pc' = "returned"
               /\ UNCHANGED <<error, stim_to_show_idx>>
          ELSE /\ stim_to_show_idx' = stim_to_show_idx + 1
               /\ IF OutOfClasses(stim_to_show_idx + 1,
                                  Len(stim_class_arr_sorted))
                  THEN Raise("RuntimeError")
                  ELSE UNCHANGED <<pc, error>>
               /\ UNCHANGED selection
    /\ UNCHANGED stim_class_arr_sorted
    /\ BalancingFrame

NextBalancing == SortClasses \/ TryClass

SpecBalancing == InitBalancing /\ [][NextBalancing]_vars

\* the loop runs on as long as it can
SpecBalancingFair == SpecBalancing /\ WF_vars(NextBalancing)

----------------------------------------------------------------------------
(* Properties of provide_balancing_selection *)

BalancingReturned == fn = "provide_balancing_selection" /\ pc = "returned"

BalancingRaised == fn = "provide_balancing_selection" /\ pc = "raised"

\* the row holds the number of class c as a magnitude of the side of c
HoldsClass(row, c) ==
    IF c < 0
    THEN Col(row, 0) = 0 - c \/ Col(row, 1) = 0 - c
    ELSE Col(row, 4) = c \/ Col(row, 5) = c

\* how often the recorded data hold class c
Presentations(c) == Cardinality({i \in 1..Len(df) : df[i] = c})

\* the rows of the pool that hold class c, in the pool's order
RowsOfClass(c) ==
    LET Holds(row) == HoldsClass(row, c)
    IN SelectSeq(payoff_settings, Holds)

AllClasses == {c \in (0 - 9)..9 : c # 0}

\* C22: the selection returned is not empty and holds exactly the rows of
\* the pool with the number of one class c on the side of c, where no class
\* that has such rows in the pool was presented less often than c.
C22_LeastSeenClassWithRows ==
    BalancingReturned =>
        /\ Len(selection) > 0
        /\ \E c \in AllClasses :
              /\ selection = RowsOfClass(c)
              /\ \A other \in AllClasses :
                    Len(RowsOfClass(other)) > 0
                        => Presentations(c) <= Presentations(other)

\* a class presented before is selected, after the classes never presented
\* were found to have no rows in the pool
C22_Witness ==
    /\ BalancingReturned
    /\ stim_to_show_idx > 0
    /\ Len(df) = MaxDfLen
    /\ Presentations(stim_class_arr_sorted[stim_to_show_idx + 1]) > 0
    /\ \E c \in AllClasses :
          /\ Len(RowsOfClass(c)) > 0
          /\ Presentations(c)
                 > Presentations(stim_class_arr_sorted[stim_to_show_idx + 1])

\* C28: the loop examines at most 18 classes and ends: with a selection that
\* is not empty, or with RuntimeError when it examined all 18, which happens
\* exactly when no row of the pool holds the number of a class on the side
\* of that class.
C28_Terminates ==
    /\ [](fn = "provide_balancing_selection" =>
             /\ stim_to_show_idx <= 18
             /\ pc = "loop" => stim_to_show_idx < 18
             /\ BalancingReturned => Len(selection) > 0
             /\ BalancingRaised =>
                   /\ error = "RuntimeError"
                   /\ stim_to_show_idx = 18
             /\ pc \in {"returned", "raised"} =>
                   (BalancingRaised
                       <=> \A c \in AllClasses : Len(RowsOfClass(c)) = 0))
    /\ <>(BalancingReturned \/ BalancingRaised)

\* the empty pool: all 18 classes were examined before the call raised
C28_Witness ==
    /\ BalancingRaised
    /\ payoff_settings = EmptyPool
    /\ stim_to_show_idx = 18
    /\ Len(df) > 0


----------------------------------------------------------------------------
(* remove_error_rows (utils.py) on a log of up to MaxLogRows lines.  A line *)
(* is of a trial or of none (begin or end of the experiment, block          *)
(* feedback) and carries the error trigger or another one.                  *)

MaxLogRows == 4

\* ord(trigger_dict['trig_new_trl'])
trig_new_trl == 3

\* one line as log_data(fpath, trial=trl, value=value) writes it
PlainLine(trl, value) ==
    [trial |-> trl,
     action_type |-> action_type_dict(NA),
     action |-> logged_action(NA),
     value |-> value,
     setting |-> logged_setting(NoDict, "insertion")]

LogLines ==
    {PlainLine(trl, value) :
        trl \in 0..(MaxLogTrials - 1) \cup {NA},
        value \in {trig_new_trl, trig_error}}

RECURSIVE LogsOfLen(_)
LogsOfLen(n) ==
    IF n = 0 THEN {<<>>}
    ELSE {Append(log, line) : log \in LogsOfLen(n - 1), line \in LogLines}

RecordedLogs == UNION {LogsOfLen(n) : n \in 0..MaxLogRows}

InitErrorRows ==
    /\ fn = "remove_error_rows"
    /\ pc = "call"
    /\ error = NoError
    /\ payoff_settings = <<>>
    /\ ev_diff = 0
    /\ payoff_setting = <<>>
    /\ payoff_dict = <<>>
    /\ SamplerIdle
    /\ TrialIdle
    /\ DesignIdle
    /\ SerialIdle
    /\ BalancingIdle
    /\ FlowIdle
    /\ GazeIdle
    /\ events \in RecordedLogs
    /\ trial = 0
    /\ log_action = 0
    /\ setting = <<>>
    /\ set_order = "unobserved"
    /\ clean_df = <<>>

\* df = remove_error_rows(df, error_trig)
RemoveErrorRows ==
    /\ fn = "remove_error_rows"
    /\ pc = "call"
    /\ clean_df' = remove_error_rows(events, trig_error)
    /\ pc' = "returned"
    /\ UNCHANGED <<fn, error, payoff_settings, settings_vars, sampler_vars,
                   trial_vars, design_vars, log_vars, serial_vars,
                   balancing_vars, flow_vars, gaze_vars>>

NextErrorRows == RemoveErrorRows

SpecErrorRows == InitErrorRows /\ [][NextErrorRows]_vars

----------------------------------------------------------------------------
(* Properties of remove_error_rows *)

ErrorRowsReturned == fn = "remove_error_rows" /\ pc = "returned"

\* the rows of trial t that carry the error trigger
ErrorRowsOf(t) ==
    {j \in 1..Len(events) : events[j].trial = t /\ events[j].value = trig_error}

\* the last of them
LastErrorRow(t) ==
    CHOOSE j \in ErrorRowsOf(t) : \A k \in ErrorRowsOf(t) : k <= j

\* row i is of a trial with an error event and at or before its last one
ToBeRemoved(i) ==
    /\ events[i].trial # NA
    /\ ErrorRowsOf(events[i].trial) # {}
    /\ i <= LastErrorRow(events[i].trial)

\* a is b without some of its rows, the others in their order
RECURSIVE IsSubsequence(_, _)
IsSubsequence(a, b) ==
    IF Len(a) = 0 THEN TRUE
    ELSE IF Len(b) = 0 THEN FALSE
    ELSE IF a[1] = b[1] THEN IsSubsequence(Tail(a), Tail(b))
    ELSE IsSubsequence(a, Tail(b))

\* C23: the rows removed are exactly those of a trial with an error event
\* that lie at or before the trial's last error row; the rows after it, the
\* rows of trials without error and the rows without a trial number are
\* kept, in their order.
C23_ExactlyTheErrorRows ==
    ErrorRowsReturned =>
        LET Idx == [i \in 1..Len(events) |-> i]
            Stays(i) == ~ToBeRemoved(i)
            staying == SelectSeq(Idx, Stays)
        IN /\ clean_df = [n \in 1..Len(staying) |-> events[staying[n]]]
           /\ IsSubsequence(clean_df, events)

\* a trial with two error rows and a row after them, next to a row without
\* a trial number
C23_Witness ==
    /\ ErrorRowsReturned
    /\ Len(events) = MaxLogRows
    /\ Cardinality(ErrorRowsOf(0)) = 2
    /\ events[Len(events)].trial = 0
    /\ events[Len(events)].value # trig_error
    /\ events[1].trial = NA
    /\ Len(clean_df) = 2


----------------------------------------------------------------------------
(* run_flow (sp.py) in the active condition, one action per wait for the    *)
(* participant.  A line of the events file is kept with its columns trial,  *)
(* action_type, value, outcome and reset; the value is the name of the      *)
(* trigger without its side and the outcome is "n/a" or "number", since no  *)
(* step of the flow reads the side or the number back.                      *)

\* 0.2 in hundredths of the norm unit
GAZE_TOLERANCE == 20

GAZE_ERROR_THRESH == 4

\* KEYLIST_SAMPLES.index(key) for the keys s, d, __ and x
SampleActions == 0..3

\* KEYLIST_FINCHOICE.index(key) for the keys s, d and x
FinChoiceActions == 0..2

\* run_flow is called with up to MaxFlowTrials trials of up to
\* MaxFlowSamples samples, and followed through MaxRestarts error events
MaxFlowTrials == 2

MaxFlowSamples == 2

MaxRestarts == 2

BlockSizes == {MaxFlowTrials}

\* the points the tracker reports for the two eyes: a sample at the centre
\* of the screen and one to the right of it
GazeSamples == {<<<<48, 50>>, <<52, 50>>>>, <<<<88, 50>>, <<92, 50>>>>}

\* line 819
GazeReset == <<<<0, 0>>, <<0, 0>>>>

Clip(x, lo, hi) == IF x < lo THEN lo ELSE IF x > hi THEN hi ELSE x

\* lines 61-66 of define_eyetracker.py: the mean of the two eyes, the y axis
\* reversed, scaled from (0, 1) to (-1, 1); in hundredths of the norm unit
normed(l, r) ==
    <<Clip(l[1] + r[1], 0, 2 * Scale) - Scale,
      Clip(2 * Scale - (l[2] + r[2]), 0, 2 * Scale) - Scale>>

\* get_normed_gazepoint when nothing writes gaze_dict during the call
get_normed_gazepoint(g) == normed(g[1], g[2])

\* dist_norm >= GAZE_TOLERANCE
NotWithinTolerance(gp) ==
    gp[1] * gp[1] + gp[2] * gp[2] >= GAZE_TOLERANCE * GAZE_TOLERANCE

\* log_data(data_file, trial=trl, action=action, value=value,
\*          outcome=outcome, reset=reset)
FlowLine(trl, action, value, outcome, reset) ==
    [trial |-> trl,
     action_type |-> action_type_dict(action),
     value |-> value,
     outcome |-> outcome,
     reset |-> reset]

\* the error event: all prior events of the trial are to be disregarded
ErrorLine(trl) == FlowLine(trl, NA, "trig_error", "n/a", 1)

\* the error events logged so far
ResetLines == {i \in 1..Len(data_file) : data_file[i].reset = 1}

InitFlow ==
    /\ fn = "run_flow"
    /\ pc = "call"
    /\ error = NoError
    /\ payoff_settings = <<>>
    /\ ev_diff = 0
    /\ payoff_setting = <<>>
    /\ payoff_dict = <<>>
    /\ SamplerIdle
    /\ TrialIdle
    /\ DesignIdle
    /\ LogIdle
    /\ SerialIdle
    /\ BalancingIdle
    /\ ErrorRowsIdle
    /\ GazeIdle
    /\ run_max_ntrls \in 0..MaxFlowTrials
    /\ max_nsamples \in 1..MaxFlowSamples
    /\ block_size \in BlockSizes
    /\ found_eyetrackers \in 0..1
    /\ optimized \in BOOLEAN
    /\ track_eyes = FALSE
    /\ gaze__error_count = 0
    /\ current_ntrls = 0
    /\ current_nblocks = 0
    /\ current_nsamples = 0
    /\ n_settings = 0
    /\ data_file = <<>>
    /\ win = "none"

FlowFrame ==
    UNCHANGED <<fn, payoff_settings, settings_vars, sampler_vars, trial_vars,
                design_vars, log_vars, serial_vars, balancing_vars,
                error_rows_vars, run_max_ntrls, max_nsamples, block_size,
                found_eyetrackers, optimized, reader, left, right,
                gazepoint>>

\* lines 314-343: the tracker is looked for and, when there is one,
\* subscribed to; the callback then puts a sample into gaze_dict
PrepareEyetracking ==
    /\ fn = "run_flow"
    /\ pc = "call"
    /\ gaze__error_count' = 0
    /\ IF found_eyetrackers = 0
       THEN /\ track_eyes' = FALSE
            /\ pc' = "begin"
            /\ UNCHANGED <<error, gaze>>
       ELSE /\ track_eyes' = TRUE
            /\ IF ~optimized /\ ~(gaze[1][1] = 0 /\ gaze[2][1] = 0)
               THEN /\ Raise("AssertionError")
                    /\ UNCHANGED gaze
               ELSE \E s \in GazeSamples :
                        /\ gaze' = s
                        /\ IF ~optimized /\ ~(s[1][1] # 0 /\ s[2][1] # 0)
                           THEN Raise("AssertionError")
                           ELSE pc' = "begin" /\ UNCHANGED error
    /\ UNCHANGED <<current_ntrls, current_nblocks, current_nsamples,
                   n_settings, data_file, win>>
    /\ FlowFrame

\* lines 345-431: the window is opened, the begin of the experiment logged
\* and the pool of settings enumerated
BeginExperiment ==
    /\ fn = "run_flow"
    /\ pc = "begin"
    /\ win' = "open"
    /\ data_file' = Append(data_file,
                           FlowLine(NA, NA, "trig_begin_experiment", "n/a", 0))
    /\ n_settings' = Len(ExperimentPool)
    /\ current_nblocks' = 0
    /\ current_ntrls' = 0
    /\ pc' = "trial"
    /\ UNCHANGED <<error, track_eyes, gaze__error_count, current_nsamples,
                   gaze>>
    /\ FlowFrame

\* lines 432-465: a setting is drawn out of the pool and the trial started
NewTrial ==
    /\ fn = "run_flow"
    /\ pc = "trial"
    /\ current_ntrls < run_max_ntrls
    /\ Cardinality(ResetLines) <= MaxRestarts
    /\ IF n_settings = 0
       THEN /\ Raise("RuntimeError")
            /\ UNCHANGED <<n_settings, data_file, current_nsamples>>
       ELSE /\ n_settings' = n_settings - 1
            /\ data_file' = data_file \o
                   <<FlowLine(current_ntrls, NA, "n/a", "n/a", 0),
                     FlowLine(current_ntrls, NA, "trig_new_trl", "n/a", 0)>>
            /\ current_nsamples' = 0
            /\ pc' = "sample"
            /\ UNCHANGED error
    /\ UNCHANGED <<track_eyes, gaze__error_count, current_ntrls,
                   current_nblocks, win, gaze>>
    /\ FlowFrame

\* lines 643-681: the final choice is announced and waited for
AwaitFinalChoice(lines) ==
    /\ data_file' = data_file \o lines \o
           <<FlowLine(current_ntrls, NA, "trig_new_final_choice", "n/a", 0),
             FlowLine(current_ntrls, NA, "trig_final_choice_onset", "n/a", 0)>>
    /\ pc' = "final_choice"

\* a break that logs no error event
ErrorBreak_NotLogged(lines) ==
    /\ data_file' = data_file \o lines
    /\ pc' = "trial"

\* the error event is logged and the while True loop left without
\* incrementing the trial counter
ErrorBreak(lines) ==
    /\ data_file' = data_file \o lines \o <<ErrorLine(current_ntrls)>>
    /\ pc' = "trial"

\* lines 597-620: the fixation test on what get_normed_gazepoint returns
GazeFixationTest(lines, gp) ==
    IF NotWithinTolerance(gp)
    THEN IF gaze__error_count + 1 > GAZE_ERROR_THRESH
         THEN /\ gaze__error_count' = 0
              /\ ErrorBreak(lines)
         ELSE /\ gaze__error_count' = gaze__error_count + 1
              /\ data_file' = data_file \o lines
              /\ pc' = "sample"
    ELSE /\ gaze__error_count' = gaze__error_count
         /\ data_file' = data_file \o lines
         /\ pc' = "sample"

\* a limit that lets one more sample through
SampleAllowed_OneMore(action, nsamples) ==
    action \in {0, 1} /\ nsamples <= max_nsamples + 1

\* action == 0 and current_nsamples <= max_nsamples, and the same of 1
SampleAllowed(action, nsamples) ==
    action \in {0, 1} /\ nsamples <= max_nsamples

\* lines 466-681: one turn of the while True loop up to its next wait.
\* timed_out: no key within maxwait_samples; action: the key pressed then,
\* or, at the first sample of a trial, in the wait without limit
Sample ==
    /\ fn = "run_flow"
    /\ pc = "sample"
    /\ \E timed_out \in BOOLEAN, action \in SampleActions :
       LET onset == <<FlowLine(current_ntrls, NA, "trig_sample_onset", "n/a", 0)>>
           nsamples == current_nsamples + 1
       IN IF timed_out /\ current_nsamples # 0
          THEN /\ ErrorBreak(onset)
               /\ UNCHANGED <<current_nsamples, gaze__error_count, gaze>>
          ELSE IF SampleAllowed(action, nsamples)
          THEN /\ current_nsamples' = nsamples
               /\ LET shown == onset \o
                        <<FlowLine(current_ntrls, action, "trig_choice", "n/a", 0),
                          FlowLine(current_ntrls, NA, "trig_mask_out", "n/a", 0),
                          FlowLine(current_ntrls, NA, "trig_show_out", "number", 0)>>
                  IN IF track_eyes
                     THEN \E a \in GazeSamples, b \in GazeSamples :
                              \* the callbacks delivered a and then b, the
                              \* left eye is read of a and the right of b
                              /\ gaze' = b
                              /\ GazeFixationTest(shown, normed(a[1], b[2]))
                     ELSE /\ gaze' = gaze
                          /\ GazeFixationTest(shown, get_normed_gazepoint(gaze))
          ELSE IF action = 2 /\ nsamples > 1
          THEN /\ current_nsamples' = nsamples
               /\ AwaitFinalChoice(onset \o
                     <<FlowLine(current_ntrls, 2, "trig_final_choice", "n/a", 0)>>)
               /\ UNCHANGED <<gaze__error_count, gaze>>
          ELSE IF action \in {0, 1} /\ nsamples > max_nsamples
          THEN /\ current_nsamples' = nsamples
               /\ LET forced == onset \o
                        <<FlowLine(current_ntrls, IF action = 0 THEN 5 ELSE 6,
                                   "trig_forced_stop", "n/a", 0)>>
                  IN IF nsamples <= 1
                     THEN ErrorBreak(forced)
                     ELSE AwaitFinalChoice(forced)
               /\ UNCHANGED <<gaze__error_count, gaze>>
          ELSE IF action = 2 /\ nsamples <= 1
          THEN /\ current_nsamples' = nsamples
               /\ ErrorBreak(onset \o
                     <<FlowLine(current_ntrls, 7, "trig_premature_stop", "n/a", 0)>>)
               /\ UNCHANGED <<gaze__error_count, gaze>>
          ELSE \* action = 3: core.quit()
               /\ current_nsamples' = nsamples
               /\ data_file' = data_file \o onset
               /\ pc' = "quit"
               /\ UNCHANGED <<gaze__error_count, gaze>>
    /\ UNCHANGED <<error, track_eyes, current_ntrls, current_nblocks,
                   n_settings, win>>
    /\ FlowFrame

\* lines 682-802: the final choice, its outcome, the block feedback and the
\* increment of the trial counter
FinalChoice ==
    /\ fn = "run_flow"
    /\ pc = "final_choice"
    /\ \E timed_out \in BOOLEAN, action \in FinChoiceActions :
       IF timed_out
       THEN /\ ErrorBreak(<<>>)
            /\ UNCHANGED <<current_nsamples, current_ntrls, current_nblocks>>
       ELSE IF action = 2
       THEN \* core.quit()
            /\ pc' = "quit"
            /\ UNCHANGED <<data_file, current_nsamples, current_ntrls,
                           current_nblocks>>
       ELSE LET block_ends == (current_ntrls + 1) % block_size = 0
            IN /\ data_file' = data_file \o
                     <<FlowLine(current_ntrls, action + 3,
                                "trig_lr_final_choice", "n/a", 0),
                       FlowLine(current_ntrls, NA, "trig_mask_final_out", "n/a", 0),
                       FlowLine(current_ntrls, NA, "trig_show_final_out",
                                "number", 0)>> \o
                     (IF block_ends
                      THEN <<FlowLine(NA, NA, "trig_block_feedback", "n/a", 0)>>
                      ELSE <<>>)
               /\ current_nsamples' = current_nsamples + 1
               /\ current_nblocks' = IF block_ends THEN current_nblocks + 1
                                     ELSE current_nblocks
               /\ current_ntrls' = current_ntrls + 1
               /\ pc' = "trial"
    /\ UNCHANGED <<error, track_eyes, gaze__error_count, n_settings, win,
                   gaze>>
    /\ FlowFrame

\* lines 804-820: the end of the experiment is logged, the subscription to
\* the tracker ended, the gaze reset and the window closed.  The local
\* eyetracker is bound only when find_eyetracker has returned
EndExperiment ==
    /\ fn = "run_flow"
    /\ pc = "trial"
    /\ ~(current_ntrls < run_max_ntrls)
    /\ data_file' = Append(data_file,
                           FlowLine(NA, NA, "trig_end_experiment", "n/a", 0))
    /\ IF track_eyes
       THEN /\ gaze' = GazeReset
            /\ win' = "closed"
            /\ pc' = "returned"
            /\ UNCHANGED error
       ELSE /\ Raise("UnboundLocalError")
            /\ UNCHANGED <<gaze, win>>
    /\ UNCHANGED <<track_eyes, gaze__error_count, current_ntrls,
                   current_nblocks, current_nsamples, n_settings>>
    /\ FlowFrame

NextFlow ==
    \/ PrepareEyetracking
    \/ BeginExperiment
    \/ NewTrial
    \/ Sample
    \/ FinalChoice
    \/ EndExperiment

SpecFlow == InitFlow /\ [][NextFlow]_vars


----------------------------------------------------------------------------
(* Properties of run_flow *)

\* the final-choice outcomes shown so far
FinalOutcomes ==
    {i \in 1..Len(data_file) : data_file[i].value = "trig_show_final_out"}

\* the end of the experiment has been logged
EndLogged ==
    /\ fn = "run_flow"
    /\ Len(data_file) > 0
    /\ data_file[Len(data_file)].value = "trig_end_experiment"

\* the lines of trial t after its last error event
AfterLastReset(t) ==
    {i \in 1..Len(data_file) :
        /\ data_file[i].trial = t
        /\ \A j \in i..Len(data_file) :
               ~(data_file[j].trial = t /\ data_file[j].reset = 1)}

\* the last line of a non-empty set of lines
LastOf(S) == CHOOSE i \in S : \A j \in S : j <= i

\* what holds of the events file in every state
TrialsCounted ==
    fn = "run_flow" =>
        /\ Cardinality(FinalOutcomes) = current_ntrls
        /\ current_ntrls <= run_max_ntrls
        /\ EndLogged =>
               /\ current_ntrls = run_max_ntrls
               /\ \A t \in 0..(run_max_ntrls - 1) :
                      /\ Cardinality({i \in AfterLastReset(t) :
                             data_file[i].action_type = "final_choice"}) = 1
                      /\ data_file[LastOf(AfterLastReset(t))].value
                             = "trig_show_final_out"

\* what holds of every step
CountedByOne ==
    /\ current_ntrls' # current_ntrls =>
           /\ current_ntrls' = current_ntrls + 1
           /\ \E i \in (Len(data_file) + 1)..Len(data_file') :
                  /\ data_file'[i].value = "trig_show_final_out"
                  /\ data_file'[i].trial = current_ntrls
    /\ (pc \in {"sample", "final_choice"} /\ pc' = "trial"
            /\ current_ntrls' = current_ntrls) =>
           /\ data_file'[Len(data_file')] = ErrorLine(current_ntrls)
           /\ data_file'[Len(data_file')].reset = 1
    /\ (pc = "trial" /\ pc' = "sample") =>
           /\ data_file'[Len(data_file')].value = "trig_new_trl"
           /\ data_file'[Len(data_file')].trial = current_ntrls
           /\ current_ntrls' = current_ntrls

\* C24: the trial counter goes up by one, and only in a step that shows a
\* final-choice outcome; a step that leaves the sampling or the final
\* choice without that outcome logs the error event with reset 1 and the
\* next trial starts under the same number; so when the end of the
\* experiment is logged max_ntrls trials are complete and the lines of each
\* trial after its last error event hold one final choice and end with its
\* outcome.
C24_CounterAndResets == []TrialsCounted /\ [][CountedByOne]_vars

\* the run has ended after two trials, each restarted once
C24_Witness ==
    /\ EndLogged
    /\ run_max_ntrls = 2
    /\ \A t \in 0..1 :
           \E i \in 1..Len(data_file) :
               data_file[i].trial = t /\ data_file[i].reset = 1

\* the lines of the trial attempt under way: those after the last new trial
CurrentAttempt ==
    LET starts == {i \in 1..Len(data_file) : data_file[i].value = "trig_new_trl"}
    IN IF starts = {} THEN {} ELSE LastOf(starts)..Len(data_file)

\* the sample outcomes shown in the lines S
SamplesShown(S) == {i \in S : data_file[i].value = "trig_show_out"}

\* the attempt line i belongs to, up to line i
AttemptUpTo(i) ==
    LET starts == {j \in 1..i : data_file[j].value = "trig_new_trl"}
    IN LastOf(starts)..i

\* C25: when the final choice is waited for, between 1 and max_nsamples
\* sample outcomes were shown in the attempt; a premature_stop is the first
\* action of its attempt and is followed by the error event; a forced_stop
\* comes after max_nsamples outcomes and is followed by the announcement of
\* the final choice.
C25_SamplesWithinBounds ==
    fn = "run_flow" =>
        /\ pc = "final_choice" =>
               /\ Cardinality(SamplesShown(CurrentAttempt)) >= 1
               /\ Cardinality(SamplesShown(CurrentAttempt)) <= max_nsamples
        /\ \A i \in 1..Len(data_file) :
               /\ data_file[i].action_type = "premature_stop" =>
                      /\ SamplesShown(AttemptUpTo(i)) = {}
                      /\ i < Len(data_file)
                      /\ data_file[i + 1] = ErrorLine(data_file[i].trial)
               /\ data_file[i].action_type = "forced_stop" =>
                      /\ Cardinality(SamplesShown(AttemptUpTo(i)))
                             = max_nsamples
                      /\ i < Len(data_file)
                      /\ data_file[i + 1].value = "trig_new_final_choice"

\* a final choice is waited for after a forced stop, in a run that also
\* saw a premature stop
C25_Witness ==
    /\ fn = "run_flow"
    /\ pc = "final_choice"
    /\ max_nsamples = MaxFlowSamples
    /\ \E i \in CurrentAttempt : data_file[i].action_type = "forced_stop"
    /\ \E i \in 1..Len(data_file) : data_file[i].action_type = "premature_stop"


\* C26: the trial is cancelled as soon as the fixation errors counted since
\* the last cancellation for gaze reach GAZE_ERROR_THRESH, and the counter
\* is then back at zero: the run is never left with a counter at the
\* threshold, and the step that counts the error that reaches the threshold
\* logs the error event.
C26_CancelledAtThreshold ==
    [][(fn = "run_flow" /\ gaze__error_count + 1 = GAZE_ERROR_THRESH
            /\ gaze__error_count' # gaze__error_count) =>
           /\ gaze__error_count' = 0
           /\ pc' = "trial"
           /\ data_file'[Len(data_file')] = ErrorLine(current_ntrls)]_vars

\* C29: without an eyetracker run_flow runs to its end: once the end of
\* the experiment is logged the gaze is reset, the window closed and the
\* call has returned without raising.
C29_CompletesWithoutTracker ==
    (EndLogged /\ found_eyetrackers = 0) =>
        /\ pc = "returned"
        /\ error = NoError
        /\ gaze = GazeReset
        /\ win = "closed"


----------------------------------------------------------------------------
(* get_normed_gazepoint (define_eyetracker.py) while the tracker is         *)
(* subscribed to: the callback runs in the thread of the tracker and may    *)
(* run between any two statements of the reader.                            *)

InitGaze ==
    /\ fn = "get_normed_gazepoint"
    /\ pc = "call"
    /\ error = NoError
    /\ payoff_settings = <<>>
    /\ ev_diff = 0
    /\ payoff_setting = <<>>
    /\ payoff_dict = <<>>
    /\ SamplerIdle
    /\ TrialIdle
    /\ DesignIdle
    /\ LogIdle
    /\ SerialIdle
    /\ BalancingIdle
    /\ ErrorRowsIdle
    /\ FlowIdle
    /\ gaze \in GazeSamples \cup {GazeDefault}
    /\ reader = "idle"
    /\ left = <<>>
    /\ right = <<>>
    /\ gazepoint = <<>>

GazeFrame ==
    UNCHANGED <<fn, pc, error, payoff_settings, settings_vars, sampler_vars,
                trial_vars, design_vars, log_vars, serial_vars,
                balancing_vars, error_rows_vars, flow_vars>>

\* lines 102-104: gaze_dict['gaze'] is bound to the tuple of a new sample
GazeDataCallback ==
    /\ fn = "get_normed_gazepoint"
    /\ \E s \in GazeSamples : gaze' = s
    /\ UNCHANGED <<reader, left, right, gazepoint>>
    /\ GazeFrame

\* line 598 of sp.py: gazepoint = get_normed_gazepoint(gaze_dict)
CallGetNormedGazepoint ==
    /\ fn = "get_normed_gazepoint"
    /\ reader \in {"idle", "returned"}
    /\ left' = <<>>
    /\ right' = <<>>
    /\ reader' = "line 59"
    /\ UNCHANGED <<gaze, gazepoint>>
    /\ GazeFrame

\* line 59: left = np.asarray(gaze_dict['gaze'][0])
ReadLeft ==
    /\ fn = "get_normed_gazepoint"
    /\ reader = "line 59"
    /\ left' = gaze[1]
    /\ reader' = "line 60"
    /\ UNCHANGED <<gaze, right, gazepoint>>
    /\ GazeFrame

\* line 60: right = np.asarray(gaze_dict['gaze'][1])
ReadRight ==
    /\ fn = "get_normed_gazepoint"
    /\ reader = "line 60"
    /\ right' = gaze[2]
    /\ reader' = "line 62"
    /\ UNCHANGED <<gaze, left, gazepoint>>
    /\ GazeFrame

\* lines 62-67: the gaze point of what was read is returned
ReturnGazepoint ==
    /\ fn = "get_normed_gazepoint"
    /\ reader = "line 62"
    /\ gazepoint' = normed(left, right)
    /\ reader' = "returned"
    /\ UNCHANGED <<gaze, left, right>>
    /\ GazeFrame

NextGaze ==
    \/ GazeDataCallback
    \/ CallGetNormedGazepoint
    \/ ReadLeft
    \/ ReadRight
    \/ ReturnGazepoint

SpecGaze == InitGaze /\ [][NextGaze]_vars

----------------------------------------------------------------------------
(* Properties of get_normed_gazepoint *)

\* C30: get_normed_gazepoint computes the gaze point from the left and the
\* right eye of one and the same gaze sample, never from the left eye of
\* one callback and the right eye of a later one.
C30_OneSample ==
    (fn = "get_normed_gazepoint" /\ reader \in {"line 62", "returned"}) =>
        \E s \in GazeSamples \cup {GazeDefault} :
            /\ left = s[1]
            /\ right = s[2]
            /\ reader = "returned" => gazepoint = get_normed_gazepoint(s)

====
